---- MODULE Spec2Model ----
(***************************************************************************)
(* A model of node-red-contrib-mcp-server.                                 *)
(*                                                                         *)
(* This part models the MCP client node (MCPClientNode): one Session to a  *)
(* remote MCP endpoint over HTTP, SSE or WebSocket, with request/response  *)
(* correlation, request timeouts, disconnect and reconnect scheduling.     *)
(*                                                                         *)
(* Node.js runs one callback at a time, so every action below is one       *)
(* complete handler run (a command of the input surface, an event of a     *)
(* connection object, a timer callback or a promise continuation).         *)
(*                                                                         *)
(* Not modelled here: the handshake discovery the open handlers schedule   *)
(* (fetchMCPHandshake), the callbacks of connect, and the auto-connect     *)
(* timeout of the constructor.                                             *)
(*                                                                         *)
(* Two further parts follow the client: the process supervisor             *)
(* (MCPServerNode) and the flow server with its tool registry              *)
(* (MCPFlowServerNode).  The three nodes share no state, so each has its   *)
(* own specification, under which the other two stay as constructed:       *)
(* Spec (the client), SupervisorSpec and FlowServerSpec.                   *)
(***************************************************************************)
EXTENDS Integers, Sequences, FiniteSets, TLC

\* ------------------------------------------------------------------ bounds
\* connection objects (EventSource / WebSocket / health probes) that may
\* exist unclosed at the same time
MaxConns == 2
\* calls of sendRequest in one behaviour
MaxRequests == 2
\* reconnect timeouts of the timer table
MaxTimers == 2

\* child processes of the supervisor alive at the same time
MaxProcs == 2
\* timeouts of one kind (restart, delayed start, forced kill) armed at the
\* same time, and health probes in flight
MaxPending == 2
\* the largest config.maxRestarts
MaxRestartsCfg == 1
\* the ids JSON-RPC requests to the flow server carry
MaxRpcId == 2
\* tool executions of the flow server in flight at the same time
MaxExecs == 2
\* registration timeouts of one tool-registry node armed at the same time
MaxRegTimers == 2
\* handshake timeouts of the client armed at the same time
MaxHandshakes == 2
\* properties of an input schema
MaxProps == 2
\* times the callback of one connect call is invoked
MaxCalls == 2
\* /sse clients of the flow server connected at the same time
MaxClients == 2
\* stopServer calls of the flow server that wait for their server to close
MaxStops == 2

Null == 0
ConnIds == 1..MaxConns
ReqIds == 1..MaxRequests
TimerIds == 1..MaxTimers

VARIABLES
    connectionType,     \* node.connectionType: "http" | "sse" | "websocket"
    cfgReconnect,       \* config.reconnect, as the flow's author set it
    isConnected,        \* node.isConnected
    connection,         \* node.connection: a connection object, or Null
    reconnectTimer,     \* node.reconnectTimer: a timer handle, or Null
    pendingRequests,    \* node.pendingRequests: the keys of the Map
    conns,              \* the state of every connection object created
    timers,             \* the reconnect timeouts armed in the event loop
    reqTimers,          \* the request timeouts armed (by request id)
    posts,              \* the axios.post promises not yet settled (by id)
    nextReq,            \* the next request id uuidv4() hands out
    out,                \* the messages node.send emitted in the last step
    ev                  \* the last step taken: what it saw on entry, and
                        \* what it handed to the callers' callbacks

clientVars == <<connectionType, cfgReconnect, isConnected, connection,
                reconnectTimer, pendingRequests, conns, timers,
                reqTimers, posts, nextReq, out, ev>>

ProcIds == 1..MaxProcs

VARIABLES
    serverType,         \* node.serverType: "python" | "node" | "custom"
    serverPath,         \* node.serverPath
    cfgMaxRestarts,     \* config.maxRestarts, as the flow's author set it
    serverProcess,      \* node.serverProcess: a child process (its place
                        \* in procs), or Null
    isRunning,          \* node.isRunning
    restartCount,       \* node.restartCount
    healthCheckTimer,   \* node.healthCheckTimer is set (not null)
    status,             \* the text of the status last published
    procs,              \* the child processes spawned and not yet exited,
                        \* oldest first: for each, whether kill('SIGTERM')
                        \* and kill('SIGKILL') were called on it
    restartTimers,      \* the exit handler's restart timeouts armed
    startTimers,        \* the 'restart' command's start timeouts armed
    killTimers,         \* stopServer's forced-termination timeouts armed
    intervals,          \* the health-check intervals armed
    probes,             \* the health probes (axios.get) not yet settled
    closed,             \* the node was closed
    sev                 \* the supervisor's last step: what it saw on entry
                        \* and what it emitted

supervisorVars == <<serverType, serverPath, cfgMaxRestarts, serverProcess,
                    isRunning, restartCount, healthCheckTimer, status, procs,
                    restartTimers, startTimers, killTimers, intervals,
                    probes, closed, sev>>

VARIABLES
    toolRegistry,       \* the tool registry: the definitions, in key order
    lastRegistered,     \* by name, the description last registered
    unregistered,       \* the names unregistered and not registered since
    executions,         \* the tool executions whose promise is pending
    fev                 \* the flow server's last step

flowVars == <<toolRegistry, lastRegistered, unregistered, executions, fev>>

VARIABLES
    registryNodes,      \* the tool-registry nodes of the flow, in the order
                        \* they were created: toolName, toolDescription,
                        \* isRegistered, the registration timeouts armed,
                        \* and whether the node was closed
    rev                 \* the last step of a tool-registry node

registryVars == <<registryNodes, rev>>

VARIABLES
    handshakeTimers,    \* the client's 500 ms handshake timeouts armed
    handshakeCallbacks  \* the requests fetchMCPHandshake made, each with
                        \* the method whose callback it carries

handshakeVars == <<handshakeTimers, handshakeCallbacks>>

VARIABLES
    schema,             \* the input schema of the tool a server lists first
    example             \* what generateExampleParams made of it

exampleVars == <<schema, example>>

VARIABLES
    toolDefaults,       \* the MCP Tool node's parsedParams: the configured
                        \* default parameters
    tev                 \* the MCP Tool node's last step: the message it
                        \* received and the parameters it sent

toolNodeVars == <<toolDefaults, tev>>

VARIABLES
    connectCallbacks    \* by connection object: whether a connect call
                        \* created it, and how many times the callback of
                        \* that call was invoked

connectVars == <<connectCallbacks>>

VARIABLES
    flowIsRunning,      \* the flow server's node.isRunning
    httpServer,         \* node.httpServer: "null", or the state of the
                        \* http.Server it holds
    sseClients,         \* the GET /sse responses that are open
    closeCallbacks,     \* the callbacks httpServer.close() was given, which
                        \* run when the server emits 'close'
    flowTimers,         \* the delayed starts of 'restart' armed
    lev                 \* the last step of the flow server's lifecycle

listenVars == <<flowIsRunning, httpServer, sseClients, closeCallbacks,
                flowTimers, lev>>

restVars == <<registryVars, handshakeVars, exampleVars, toolNodeVars,
              connectVars, listenVars>>

vars == <<clientVars, supervisorVars, flowVars, restVars>>

\* ------------------------------------------------------------ configuration
\* node.reconnect = config.reconnect || true
ReconnectSetting_honoursConfig(c) == c
ReconnectSetting(c) == c \/ TRUE

reconnect == ReconnectSetting(cfgReconnect)

\* ------------------------------------------------------- connection objects
\* A connection object is "closed" before it is created and after its last
\* event; a closed object emits nothing, so its identity is reused.
\*   websocket: connecting -> open -> (failing | closing) -> closed
\*              "failing":  'error' was emitted, 'close' (1006) is to come
\*              "closing":  close(1000) was called on an open socket
\*              "aborting": close() was called before the socket opened:
\*                          ws emits 'error', then 'close' (1006)
\*   sse:       connecting -> open -> closed (EventSource retries by itself)
\*   http:      the GET /health probe: connecting -> closed
ConnStates == {"closed", "connecting", "open", "failing", "closing", "aborting"}

Live(c) == conns[c] # "closed"
FreeConns == {c \in ConnIds : ~Live(c)}
NewConn == CHOOSE c \in FreeConns : \A d \in FreeConns : c <= d

\* the handle setTimeout returns: a timer not armed (ts: the armed ones)
NewTimer(ts) ==
    IF TimerIds \ ts = {} THEN MaxTimers
    ELSE CHOOSE t \in TimerIds \ ts : \A u \in TimerIds \ ts : t <= u

\* close codes of a WebSocket 'close' event; 1000 is the normal closure
NormalClosure == 1000
CloseCodes == {NormalClosure, 1001}

\* ----------------------------------------------------------- inbound frames
\* The text of an inbound SSE event / WebSocket frame.
Texts ==
    {[kind |-> "garbage"], [kind |-> "null"]}
    \cup {[kind |-> "object", hasId |-> FALSE, id |-> Null]}
    \cup {[kind |-> "object", hasId |-> TRUE, id |-> i] : i \in 0..MaxRequests}

\* JSON.parse: throws on text that is no JSON; `null` is JSON.
JSONParse(text) ==
    CASE text.kind = "garbage" -> [threw |-> TRUE]
      [] text.kind = "null"    -> [threw |-> FALSE, value |-> [type |-> "null"]]
      [] text.kind = "object"  ->
            [threw |-> FALSE,
             value |-> [type |-> "object", hasId |-> text.hasId, id |-> text.id]]

\* data.id: a TypeError on null, undefined (falsy) when absent; the ids 0
\* and "" are falsy. An id of 1..MaxRequests that no pending request has
\* stands for any id the table does not hold.
IdThrows(value) == value.type = "null"
IdOf(value) == IF value.type = "object" /\ value.hasId THEN value.id ELSE Null
Truthy(id) == id # Null

RawMsg(text) == [topic |-> "raw", payload |-> text]
ResponseMsg(value) == [topic |-> "response", payload |-> value, requestId |-> value.id]
GeneralMsg(value) == [topic |-> "message", payload |-> value]

\* -------------------------------------------------------------- the handlers
\* A callback call: request r's caller receives `what`.
Call(r, what) == [req |-> r, what |-> what]

\* connection.onmessage of connectSSE: what it emits and the pending entry
\* it resolves (Null: none), given the pending table.
SSEOnMessage_dropsUnparsed(text, pending) ==
    LET parsed == JSONParse(text) IN
    IF parsed.threw \/ IdThrows(parsed.value)
    THEN [match |-> Null, out |-> <<>>]
    ELSE IF Truthy(IdOf(parsed.value)) /\ IdOf(parsed.value) \in pending
         THEN [match |-> IdOf(parsed.value), out |-> <<ResponseMsg(parsed.value)>>]
         ELSE [match |-> Null, out |-> <<GeneralMsg(parsed.value)>>]
SSEOnMessage(text, pending) ==
    LET parsed == JSONParse(text) IN
    IF parsed.threw \/ IdThrows(parsed.value)
    THEN [match |-> Null, out |-> <<RawMsg(text)>>]
    ELSE IF Truthy(IdOf(parsed.value)) /\ IdOf(parsed.value) \in pending
         THEN [match |-> IdOf(parsed.value), out |-> <<ResponseMsg(parsed.value)>>]
         ELSE [match |-> Null, out |-> <<GeneralMsg(parsed.value)>>]

\* connection.on('message') of connectWebSocket, likewise.
WSOnMessage(text, pending) ==
    LET parsed == JSONParse(text) IN
    IF parsed.threw \/ IdThrows(parsed.value)
    THEN [match |-> Null, out |-> <<RawMsg(text)>>]
    ELSE IF Truthy(IdOf(parsed.value)) /\ IdOf(parsed.value) \in pending
         THEN [match |-> IdOf(parsed.value), out |-> <<ResponseMsg(parsed.value)>>]
         ELSE [match |-> Null, out |-> <<GeneralMsg(parsed.value)>>]

\* What the matching branch of a message handler does with the entry it
\* found: clearTimeout(request.timeout) and pendingRequests.delete(id). The
\* stored request.callback is not called.
ResolveEntry(r, pending, rts) ==
    IF r = Null
    THEN [pendingRequests |-> pending, reqTimers |-> rts, calls |-> <<>>]
    ELSE [pendingRequests |-> pending \ {r}, reqTimers |-> rts \ {r}, calls |-> <<>>]

\* node.scheduleReconnect, on the timer handle rt and the armed timers ts.
ScheduleReconnect_unguarded(rt, ts) ==
    [reconnectTimer |-> NewTimer(ts), timers |-> ts \cup {NewTimer(ts)}]
ScheduleReconnect(rt, ts) ==
    IF rt # Null
    THEN [reconnectTimer |-> rt, timers |-> ts]
    ELSE [reconnectTimer |-> NewTimer(ts), timers |-> ts \cup {NewTimer(ts)}]

\* `if (node.reconnect) node.scheduleReconnect()` of the error handlers
\* (cond: the handler's further condition, code !== 1000 for 'close').
MaybeReconnect(cond) ==
    LET s == IF reconnect /\ cond
             THEN ScheduleReconnect(reconnectTimer, timers)
             ELSE [reconnectTimer |-> reconnectTimer, timers |-> timers]
    IN /\ reconnectTimer' = s.reconnectTimer
       /\ timers' = s.timers

\* node.connect past its isConnected guard: the transport's strategy creates
\* its connection object (SSE, WebSocket) or issues its probe (HTTP).
CanConnect == isConnected \/ FreeConns # {}
Connect ==
    IF isConnected
    THEN UNCHANGED <<conns, connection>>
    ELSE /\ conns' = [conns EXCEPT ![NewConn] = "connecting"]
         /\ connection' = IF connectionType = "http" THEN connection ELSE NewConn

\* what the input handler's callback emits for a command's result
CallerMsg(topic) == [topic |-> topic, from |-> "callback"]
ConnectedMsg == [topic |-> "connected", connectionType |-> connectionType]
ErrorMsg(text, r) == [topic |-> "error", error |-> text, requestId |-> r]

\* --------------------------------------------------------------------- Init
\* The state the constructor leaves, for every configuration of the node.
Init ==
    /\ connectionType \in {"http", "sse", "websocket"}
    /\ cfgReconnect \in BOOLEAN
    /\ isConnected = FALSE
    /\ connection = Null
    /\ reconnectTimer = Null
    /\ pendingRequests = {}
    /\ conns = [c \in ConnIds |-> "closed"]
    /\ timers = {}
    /\ reqTimers = {}
    /\ posts = {}
    /\ nextReq = 1
    /\ out = <<>>
    /\ ev = [kind |-> "init"]

config == <<connectionType, cfgReconnect>>
requests == <<pendingRequests, reqTimers, posts, nextReq>>

\* ------------------------------------------------------------------ connect
\* The 'connect' command of the input surface.
CmdConnect ==
    /\ CanConnect
    /\ Connect
    /\ out' = IF isConnected THEN <<CallerMsg("connect")>> ELSE <<>>
    /\ ev' = [kind |-> "connect", by |-> "command", attempt |-> ~isConnected]
    /\ UNCHANGED <<config, isConnected, reconnectTimer, timers, requests>>

\* The timeout scheduleReconnect armed: clear the handle, connect unless
\* the session is connected by now.
ReconnectFire(t) ==
    /\ t \in timers
    /\ CanConnect
    /\ timers' = timers \ {t}
    /\ reconnectTimer' = Null
    /\ Connect
    /\ out' = <<>>
    /\ ev' = [kind |-> "connect", by |-> "reconnect", attempt |-> ~isConnected]
    /\ UNCHANGED <<config, isConnected, requests>>

\* ---------------------------------------------------------------- HTTP probe
HTTPProbeOk(c) ==
    /\ connectionType = "http"
    /\ conns[c] = "connecting"
    /\ conns' = [conns EXCEPT ![c] = "closed"]
    /\ isConnected' = TRUE
    /\ out' = <<ConnectedMsg>>
    /\ ev' = [kind |-> "open"]
    /\ UNCHANGED <<config, connection, reconnectTimer, timers, requests>>

HTTPProbeFail(c) ==
    /\ connectionType = "http"
    /\ conns[c] = "connecting"
    /\ conns' = [conns EXCEPT ![c] = "closed"]
    /\ isConnected' = FALSE
    /\ MaybeReconnect(TRUE)
    /\ out' = <<>>
    /\ ev' = [kind |-> "transport_error", hadTimer |-> reconnectTimer # Null]
    /\ UNCHANGED <<config, connection, requests>>

\* ----------------------------------------------------------------------- SSE
SSEOpen(c) ==
    /\ connectionType = "sse"
    /\ conns[c] = "connecting"
    /\ conns' = [conns EXCEPT ![c] = "open"]
    /\ isConnected' = TRUE
    /\ out' = <<ConnectedMsg>>
    /\ ev' = [kind |-> "open"]
    /\ UNCHANGED <<config, connection, reconnectTimer, timers, requests>>

\* An event of the stream. The SSE case of sendRequest registers nothing in
\* pendingRequests, so the handler's lookup is against the table as it is.
SSEMessage(c, text) ==
    /\ connectionType = "sse"
    /\ conns[c] = "open"
    /\ LET h == SSEOnMessage(text, pendingRequests)
           s == ResolveEntry(h.match, pendingRequests, reqTimers)
       IN
       /\ out' = h.out
       /\ pendingRequests' = s.pendingRequests
       /\ reqTimers' = s.reqTimers
       /\ ev' = [kind |-> "inbound", transport |-> "sse", payload |-> text,
                 inFlight |-> text.kind = "object" /\ text.hasId
                              /\ text.id \in posts,
                 removed |-> pendingRequests \ s.pendingRequests,
                 calls |-> s.calls]
    /\ UNCHANGED <<config, isConnected, connection, conns, reconnectTimer, timers,
                   posts, nextReq>>

\* onerror: the EventSource retries by itself (back to connecting) or, on a
\* fatal answer of the server, closes.
SSEError(c) ==
    /\ connectionType = "sse"
    /\ conns[c] \in {"connecting", "open"}
    /\ \E next \in {"connecting", "closed"} : conns' = [conns EXCEPT ![c] = next]
    /\ isConnected' = FALSE
    /\ MaybeReconnect(TRUE)
    /\ out' = <<>>
    /\ ev' = [kind |-> "transport_error", hadTimer |-> reconnectTimer # Null]
    /\ UNCHANGED <<config, connection, requests>>

\* ----------------------------------------------------------------- WebSocket
WSOpen(c) ==
    /\ connectionType = "websocket"
    /\ conns[c] = "connecting"
    /\ conns' = [conns EXCEPT ![c] = "open"]
    /\ isConnected' = TRUE
    /\ out' = <<ConnectedMsg>>
    /\ ev' = [kind |-> "open"]
    /\ UNCHANGED <<config, connection, reconnectTimer, timers, requests>>

WSMessage(c, text) ==
    /\ connectionType = "websocket"
    /\ conns[c] \in {"open", "closing"}
    /\ LET h == WSOnMessage(text, pendingRequests)
           s == ResolveEntry(h.match, pendingRequests, reqTimers)
       IN
       /\ out' = h.out
       /\ pendingRequests' = s.pendingRequests
       /\ reqTimers' = s.reqTimers
       /\ ev' = [kind |-> "inbound", transport |-> "websocket", payload |-> text,
                 inFlight |-> text.kind = "object" /\ text.hasId
                              /\ text.id \in pendingRequests,
                 removed |-> pendingRequests \ s.pendingRequests,
                 calls |-> s.calls]
    /\ UNCHANGED <<config, isConnected, connection, conns, reconnectTimer, timers,
                   posts, nextReq>>

\* 'error': ws emits 'close' after it.
WSError(c) ==
    /\ connectionType = "websocket"
    /\ conns[c] \in {"connecting", "open", "aborting"}
    /\ conns' = [conns EXCEPT ![c] = "failing"]
    /\ isConnected' = FALSE
    /\ MaybeReconnect(TRUE)
    /\ out' = <<>>
    /\ ev' = [kind |-> "transport_error", hadTimer |-> reconnectTimer # Null]
    /\ UNCHANGED <<config, connection, requests>>

\* 'close': after an error the code is not 1000; the peer closes an open
\* socket with any code; a closing handshake ends with 1000, or with an
\* abnormal code when the peer never answers it.
WSClose(c, code) ==
    /\ connectionType = "websocket"
    /\ \/ conns[c] \in {"open", "closing"}
       \/ conns[c] = "failing" /\ code # NormalClosure
    /\ conns' = [conns EXCEPT ![c] = "closed"]
    /\ isConnected' = FALSE
    /\ MaybeReconnect(code # NormalClosure)
    /\ out' = <<>>
    /\ ev' = [kind |-> "closed", abnormal |-> code # NormalClosure,
              hadTimer |-> reconnectTimer # Null]
    /\ UNCHANGED <<config, connection, requests>>

\* --------------------------------------------------------------- disconnect
\* connection.close() of disconnect: EventSource.close() ends the stream at
\* once; WebSocket.close(1000) starts the closing handshake of an open
\* socket, aborts a connecting one, and does nothing on a socket already on
\* its way down.
CloseConn(cs, c) ==
    IF c = Null \/ connectionType = "http" THEN cs
    ELSE IF connectionType = "sse" THEN [cs EXCEPT ![c] = "closed"]
    ELSE [cs EXCEPT ![c] = CASE cs[c] = "open" -> "closing"
                             [] cs[c] = "connecting" -> "aborting"
                             [] OTHER -> cs[c]]

\* What disconnect does with the pending requests of a connected session:
\* clearTimeout on each, then pendingRequests.clear(); no callback is called.
ClearPending(pending, rts) ==
    [pendingRequests |-> {}, reqTimers |-> rts \ pending, calls |-> <<>>]

\* node.disconnect, as the 'disconnect' command calls it.
CmdDisconnect ==
    /\ IF ~isConnected
       THEN \* "Already disconnected": nothing else is touched
            /\ ev' = [kind |-> "disconnect", wasConnected |-> FALSE,
                      pending |-> pendingRequests, calls |-> <<>>]
            /\ UNCHANGED <<isConnected, connection, conns, reconnectTimer, timers,
                           pendingRequests, reqTimers>>
       ELSE LET s == ClearPending(pendingRequests, reqTimers) IN
            /\ timers' = timers \ {reconnectTimer}
            /\ reconnectTimer' = Null
            /\ conns' = CloseConn(conns, connection)
            /\ connection' = Null
            /\ isConnected' = FALSE
            /\ pendingRequests' = s.pendingRequests
            /\ reqTimers' = s.reqTimers
            /\ ev' = [kind |-> "disconnect", wasConnected |-> TRUE,
                      pending |-> pendingRequests, calls |-> s.calls]
    /\ out' = <<CallerMsg("disconnect")>>
    /\ UNCHANGED <<config, posts, nextReq>>

\* -------------------------------------------------------------- sendRequest
\* connection.send(...) of the WebSocket case: the outcomes the socket's
\* state allows. A null connection and a socket that is not open yet throw;
\* a socket past open throws or drops the frame, by the version of ws.
SendOutcomes ==
    IF connection = Null THEN {"throws"}
    ELSE CASE conns[connection] = "open" -> {"sent"}
           [] conns[connection] \in {"connecting", "aborting"} -> {"throws"}
           [] OTHER -> {"throws", "dropped"}

\* The guard of sendRequest.
NotConnected_neverRefuses == FALSE
NotConnected == ~isConnected

\* The 'request' command: node.sendRequest(method, params, callback) under a
\* fresh request id. ev.sent: a POST was issued or a frame handed to the
\* socket.
CmdRequest ==
    /\ nextReq \in ReqIds
    /\ nextReq' = nextReq + 1
    /\ LET r == nextReq
           e == [kind |-> "request", req |-> r, wasConnected |-> isConnected,
                 pending |-> pendingRequests]
       IN
       IF NotConnected
       THEN /\ ev' = e @@ [sent |-> FALSE, calls |-> <<Call(r, "not_connected")>>]
            /\ out' = <<CallerMsg("error")>>
            /\ UNCHANGED <<pendingRequests, reqTimers, posts>>
       ELSE IF connectionType \in {"http", "sse"}
       THEN /\ posts' = posts \cup {r}
            /\ ev' = e @@ [sent |-> TRUE, calls |-> <<>>]
            /\ out' = <<>>
            /\ UNCHANGED <<pendingRequests, reqTimers>>
       ELSE \E o \in SendOutcomes :
            IF o = "throws"
            THEN /\ ev' = e @@ [sent |-> FALSE, calls |-> <<Call(r, "send_error")>>]
                 /\ out' = <<CallerMsg("error")>>
                 /\ UNCHANGED <<pendingRequests, reqTimers, posts>>
            ELSE /\ reqTimers' = reqTimers \cup {r}
                 /\ pendingRequests' = pendingRequests \cup {r}
                 /\ ev' = e @@ [sent |-> TRUE, calls |-> <<>>]
                 /\ out' = <<>>
                 /\ UNCHANGED posts
    /\ UNCHANGED <<config, isConnected, connection, conns, reconnectTimer, timers>>

\* The request timeout of the WebSocket case fires.
RequestTimeout(r) ==
    /\ r \in reqTimers
    /\ reqTimers' = reqTimers \ {r}
    /\ pendingRequests' = pendingRequests \ {r}
    /\ out' = <<CallerMsg("error"), ErrorMsg("Request timeout", r)>>
    /\ ev' = [kind |-> "request_timeout", req |-> r,
              removed |-> pendingRequests \cap {r},
              calls |-> <<Call(r, "timeout")>>]
    /\ UNCHANGED <<config, isConnected, connection, conns, reconnectTimer, timers,
                   posts, nextReq>>

\* The POST of the HTTP and SSE cases is answered: its body is the reply.
PostResolve(r) ==
    /\ r \in posts
    /\ posts' = posts \ {r}
    /\ out' = IF connectionType = "http"
              THEN <<CallerMsg("response"), [topic |-> "response", requestId |-> r]>>
              ELSE <<CallerMsg("response")>>
    /\ ev' = [kind |-> "post_settled", req |-> r, calls |-> <<Call(r, "response")>>]
    /\ UNCHANGED <<config, isConnected, connection, conns, reconnectTimer, timers,
                   pendingRequests, reqTimers, nextReq>>

\* The POST fails: axios' timeout, or a transport or status error.
PostReject(r, why) ==
    /\ r \in posts
    /\ posts' = posts \ {r}
    /\ out' = IF connectionType = "http"
              THEN <<CallerMsg("error"), ErrorMsg(why, r)>>
              ELSE <<CallerMsg("error")>>
    /\ ev' = [kind |-> "post_settled", req |-> r, calls |-> <<Call(r, why)>>]
    /\ UNCHANGED <<config, isConnected, connection, conns, reconnectTimer, timers,
                   pendingRequests, reqTimers, nextReq>>

\* --------------------------------------------------------------------- Next
\* a step of the client leaves the other two nodes alone
ClientOnly == UNCHANGED <<supervisorVars, flowVars, restVars>>

Next ==
    \/ CmdConnect /\ ClientOnly
    \/ \E t \in TimerIds : ReconnectFire(t) /\ ClientOnly
    \/ \E c \in ConnIds : HTTPProbeOk(c) /\ ClientOnly
    \/ \E c \in ConnIds : HTTPProbeFail(c) /\ ClientOnly
    \/ \E c \in ConnIds : SSEOpen(c) /\ ClientOnly
    \/ \E c \in ConnIds, text \in Texts : SSEMessage(c, text) /\ ClientOnly
    \/ \E c \in ConnIds : SSEError(c) /\ ClientOnly
    \/ \E c \in ConnIds : WSOpen(c) /\ ClientOnly
    \/ \E c \in ConnIds, text \in Texts : WSMessage(c, text) /\ ClientOnly
    \/ \E c \in ConnIds : WSError(c) /\ ClientOnly
    \/ \E c \in ConnIds, code \in CloseCodes : WSClose(c, code) /\ ClientOnly
    \/ CmdDisconnect /\ ClientOnly
    \/ CmdRequest /\ ClientOnly
    \/ \E r \in ReqIds : RequestTimeout(r) /\ ClientOnly
    \/ \E r \in ReqIds : PostResolve(r) /\ ClientOnly
    \/ \E r \in ReqIds, why \in {"timeout", "post_error"} :
           PostReject(r, why) /\ ClientOnly

TypeOK ==
    /\ isConnected \in BOOLEAN
    /\ connection \in ConnIds \cup {Null}
    /\ reconnectTimer \in TimerIds \cup {Null}
    /\ pendingRequests \subseteq ReqIds
    /\ reqTimers \subseteq pendingRequests
    /\ posts \subseteq ReqIds
    /\ conns \in [ConnIds -> ConnStates]
    /\ timers \subseteq TimerIds
    /\ nextReq \in 1..(MaxRequests + 1)

\* ===================================================== the process supervisor
\* MCPServerNode (src/mcp-server.js): one external tool-server process is
\* spawned, watched on its output and exit, probed for health, restarted
\* within a budget, and stopped.  Every action is one complete callback run.
\*
\* Not modelled here: the 'error' event of the child process, its stderr and
\* its output without a startup marker (republished, nothing else), the
\* 'status' command (a report, nothing else), the auto-start timeout of the
\* constructor, output that arrives after the exit event, and the
\* serverCache entries.

\* node.maxRestarts = config.maxRestarts || 3
DefaultMaxRestarts == 3
maxRestarts == IF cfgMaxRestarts = 0 THEN DefaultMaxRestarts ELSE cfgMaxRestarts

ServerTypes == {"python", "node", "custom"}
\* config.serverPath: left empty, or one word
ServerPaths == {"", "server"}

\* the command startServer builds for spawn (the paths here have one word,
\* so split(/\s+/)[0] is the path itself, and "" for the empty path)
Command ==
    CASE serverType = "python" -> "python3"
      [] serverType = "node" -> "node"
      [] OTHER -> serverPath

\* child_process.spawn throws synchronously on an empty file name
SpawnThrows == Command = ""

\* a child process as spawn returns it
Spawned == [term |-> FALSE, kill |-> FALSE]

\* the sequence without its i-th element
Without(seq, i) ==
    [j \in 1..(Len(seq) - 1) |-> IF j < i THEN seq[j] ELSE seq[j + 1]]

\* The fields of the node and the event loop's tables, as one record the
\* handlers below transform; sent, calls, errors, spawned, signals collect
\* what the running callback emits, reports, spawns and signals.
Now ==
    [serverProcess |-> serverProcess, isRunning |-> isRunning,
     restartCount |-> restartCount, healthCheckTimer |-> healthCheckTimer,
     status |-> status, procs |-> procs, restartTimers |-> restartTimers,
     startTimers |-> startTimers, killTimers |-> killTimers,
     intervals |-> intervals, probes |-> probes,
     sent |-> <<>>, calls |-> <<>>, errors |-> <<>>, spawned |-> 0,
     signals |-> <<>>]

SetStatus(s, text) == [s EXCEPT !.status = text]
Send(s, m) == [s EXCEPT !.sent = Append(@, m)]
ReportError(s, text) == [s EXCEPT !.errors = Append(@, text)]

\* ---- callbacks handed to startServer and stopServer
NoError == "null"
NoResult == [success |-> FALSE, message |-> "undefined"]
Result(success, message) == [success |-> success, message |-> message]

\* "default": () => {} ; "reply": the callbacks of the 'start' and 'stop'
\* commands and of the delayed start of 'restart' ; "restart": the callback
\* 'restart' hands to stopServer ; "done": the callback of the close handler
Callback(s, cb, error, result) ==
    LET s1 == [s EXCEPT !.calls =
                   Append(@, [cb |-> cb, error |-> error, result |-> result])]
    IN CASE cb = "reply" ->
              IF error = NoError
              THEN Send(s1, [topic |-> "reply", payload |-> result])
              ELSE s1
         [] cb = "restart" -> [s1 EXCEPT !.startTimers = @ + 1]
         [] OTHER -> s1

\* ---- node.startServer
\* the guard of startServer: what makes a call report 'already running'
AlreadyRunning(s) == s.isRunning

\* the configuration check of startServer: which server types refuse an
\* empty path before anything is spawned
PathRequired == serverType = "python" /\ serverPath = ""

StartServer(s, cb) ==
    IF AlreadyRunning(s)
    THEN Callback(s, cb, NoError, Result(FALSE, "Server already running"))
    ELSE LET s1 == SetStatus(s, "starting...")
         IN IF PathRequired
            THEN Callback(SetStatus(ReportError(s1, "path required"),
                                    "error: no path"),
                          cb, "path required", NoResult)
            ELSE IF SpawnThrows
            THEN Callback(SetStatus(ReportError(s1, "spawn threw"), "error"),
                          cb, "spawn threw", NoResult)
            ELSE Callback([s1 EXCEPT !.serverProcess = Len(s.procs) + 1,
                                     !.procs = Append(@, Spawned),
                                     !.spawned = @ + 1],
                          cb, NoError, Result(TRUE, "Server starting"))

\* ---- health checks
StopHealthCheck(s) ==
    IF s.healthCheckTimer
    THEN [s EXCEPT !.healthCheckTimer = FALSE, !.intervals = @ - 1]
    ELSE s

StartHealthCheck(s) ==
    LET s1 == IF s.healthCheckTimer
              THEN [s EXCEPT !.intervals = @ - 1]
              ELSE s
    IN [s1 EXCEPT !.healthCheckTimer = TRUE, !.intervals = @ + 1]

\* node.healthCheck = config.healthCheck || true
healthCheck == TRUE

\* ---- node.onServerStarted
OnServerStarted_keepsCount(s) ==
    LET s1 == SetStatus([s EXCEPT !.isRunning = TRUE], "running")
        s2 == IF healthCheck THEN StartHealthCheck(s1) ELSE s1
    IN Send(s2, [topic |-> "started", payload |-> "server"])
OnServerStarted(s) ==
    LET s1 == SetStatus([s EXCEPT !.isRunning = TRUE, !.restartCount = 0],
                        "running")
        s2 == IF healthCheck THEN StartHealthCheck(s1) ELSE s1
    IN Send(s2, [topic |-> "started", payload |-> "server"])

\* ---- the 'exit' handler
ExitMsg(e) == [topic |-> "exit", payload |-> e]

\* `code !== 0`: true of every other code, and of the null code of a
\* process that a signal ended
NonZero(e) == e.code # "0"

RestartBudgetLeft_oneMore(s) == s.restartCount <= maxRestarts
RestartBudgetLeft(s) == s.restartCount < maxRestarts

OnExit(s, p, e) ==
    LET s1 == [s EXCEPT !.isRunning = FALSE, !.serverProcess = Null,
                        !.procs = Without(@, p)]
    IN IF NonZero(e) /\ RestartBudgetLeft(s1)
       THEN [SetStatus(s1, "restarting...")
                EXCEPT !.restartCount = @ + 1, !.restartTimers = @ + 1]
       ELSE Send(StopHealthCheck(SetStatus(s1, "stopped")), ExitMsg(e))

\* ---- serverProcess.kill(signal)
Kill(s, p, signal) ==
    [s EXCEPT !.procs[p] = IF signal = "SIGTERM"
                           THEN [@ EXCEPT !.term = TRUE]
                           ELSE [@ EXCEPT !.kill = TRUE],
              !.signals = Append(@, [proc |-> p, signal |-> signal])]

\* ---- node.stopServer
\* the guard of stopServer: what makes a call report 'already stopped'
NothingToStop(s) == ~s.isRunning \/ s.serverProcess = Null

StopServer(s, cb) ==
    IF NothingToStop(s)
    THEN Callback(SetStatus(s, "stopped"), cb, NoError,
                  Result(TRUE, "Server already stopped"))
    ELSE LET s1 == StopHealthCheck(SetStatus(s, "stopping..."))
             s2 == [Kill(s1, s.serverProcess, "SIGTERM")
                       EXCEPT !.killTimers = @ + 1, !.isRunning = FALSE]
         IN Callback(s2, cb, NoError, Result(TRUE, "Server stopping"))

\* the forced termination stopServer arms: it reads node.serverProcess when
\* it fires, and `killed` is set on a process once kill() has signalled it
Killed(s, p) == s.procs[p].term \/ s.procs[p].kill

ForceKill(s) ==
    LET s1 == [s EXCEPT !.killTimers = @ - 1]
    IN IF s.serverProcess # Null /\ ~Killed(s, s.serverProcess)
       THEN Kill(s1, s.serverProcess, "SIGKILL")
       ELSE s1

\* ---- the health probe's continuations
\* node.status() as the success branch reads it: the runtime's status call
\* publishes its argument; the source does not fix what it returns, so the
\* read either yields the status last set or yields undefined, and reading
\* .text of undefined throws into the catch block
StatusReads == {"object", "undefined"}

ProbeFailed(s) ==
    IF s.isRunning THEN SetStatus(s, "unhealthy") ELSE s

ProbeSucceeded(s, read) ==
    IF read = "undefined"
    THEN ProbeFailed(s)
    ELSE IF s.status # "running" THEN SetStatus(s, "running") ELSE s

\* ---- the close handler
OnClose(s) ==
    LET s1 == StopHealthCheck(s)
    IN IF s1.isRunning /\ s1.serverProcess # Null
       THEN StopServer(s1, "done")
       ELSE Callback(s1, "done", NoError, NoResult)

\* ---- Init
SupervisorInit ==
    /\ serverType \in ServerTypes
    /\ serverPath \in ServerPaths
    /\ cfgMaxRestarts = MaxRestartsCfg
    /\ serverProcess = Null
    /\ isRunning = FALSE
    /\ restartCount = 0
    /\ healthCheckTimer = FALSE
    /\ status = "stopped"
    /\ procs = <<>>
    /\ restartTimers = 0
    /\ startTimers = 0
    /\ killTimers = 0
    /\ intervals = 0
    /\ probes = 0
    /\ closed = FALSE
    /\ sev = [kind |-> "init"]

\* ---- the step of one callback
\* what the callback saw on entry
Pre ==
    [serverProcess |-> serverProcess, isRunning |-> isRunning,
     restartCount |-> restartCount]

\* the tables stay within the bounds of the model
Fits(s) ==
    /\ Len(s.procs) <= MaxProcs
    /\ s.restartTimers + s.startTimers + s.killTimers + s.probes <= MaxPending

Becomes(s, e) ==
    /\ Fits(s)
    /\ serverProcess' = s.serverProcess
    /\ isRunning' = s.isRunning
    /\ restartCount' = s.restartCount
    /\ healthCheckTimer' = s.healthCheckTimer
    /\ status' = s.status
    /\ procs' = s.procs
    /\ restartTimers' = s.restartTimers
    /\ startTimers' = s.startTimers
    /\ killTimers' = s.killTimers
    /\ intervals' = s.intervals
    /\ probes' = s.probes
    /\ sev' = [kind |-> e.kind, arg |-> e.arg, pre |-> Pre, sent |-> s.sent,
               calls |-> s.calls, errors |-> s.errors, spawned |-> s.spawned,
               signals |-> s.signals,
               armed |-> s.restartTimers > restartTimers]
    /\ UNCHANGED <<serverType, serverPath, cfgMaxRestarts>>

Step(kind, arg) == [kind |-> kind, arg |-> arg]
NoArg == [code |-> "none", signal |-> "none"]

\* ---- the input surface
SupCmdStart ==
    /\ ~closed
    /\ Becomes(StartServer(Now, "reply"), Step("start", NoArg))
    /\ UNCHANGED closed

SupCmdStop ==
    /\ ~closed
    /\ Becomes(StopServer(Now, "reply"), Step("stop", NoArg))
    /\ UNCHANGED closed

SupCmdRestart ==
    /\ ~closed
    /\ Becomes(StopServer(Now, "restart"), Step("restart", NoArg))
    /\ UNCHANGED closed

SupClose ==
    /\ ~closed
    /\ Becomes(OnClose(Now), Step("close", NoArg))
    /\ closed' = TRUE

\* ---- the timeouts
\* the delayed start of the exit handler: node.startServer()
RestartFire ==
    /\ restartTimers > 0
    /\ Becomes(StartServer([Now EXCEPT !.restartTimers = @ - 1], "default"),
               Step("restart_fire", NoArg))
    /\ UNCHANGED closed

\* the delayed start of the 'restart' command
StartFire ==
    /\ startTimers > 0
    /\ Becomes(StartServer([Now EXCEPT !.startTimers = @ - 1], "reply"),
               Step("start_fire", NoArg))
    /\ UNCHANGED closed

KillFire ==
    /\ killTimers > 0
    /\ Becomes(ForceKill(Now), Step("kill_fire", NoArg))
    /\ UNCHANGED closed

\* ---- the child process
\* the outcomes of a process: what it passes to the 'exit' handler
Exits ==
    {[code |-> "0", signal |-> "null"], [code |-> "1", signal |-> "null"],
     [code |-> "null", signal |-> "SIGTERM"],
     [code |-> "null", signal |-> "SIGKILL"]}

\* a process ends on its own, or by a signal that was sent to it; SIGKILL
\* cannot be handled
ExitsOf(p) ==
    IF procs[p].kill
    THEN {[code |-> "null", signal |-> "SIGKILL"]}
    ELSE {[code |-> "0", signal |-> "null"], [code |-> "1", signal |-> "null"]}
         \cup (IF procs[p].term
               THEN {[code |-> "null", signal |-> "SIGTERM"]}
               ELSE {})

\* stdout data that includes one of the startup markers ('Server started',
\* 'listening', 'FastMCP server'): republished, then node.onServerStarted()
StartupMarker(p) ==
    /\ p \in DOMAIN procs
    /\ Becomes(OnServerStarted(Send(Now, [topic |-> "stdout",
                                          payload |-> "listening"])),
               Step("stdout", NoArg))
    /\ UNCHANGED closed

Exit(p, e) ==
    /\ p \in DOMAIN procs
    /\ e \in ExitsOf(p)
    /\ Becomes(OnExit(Now, p, e), Step("exit", e))
    /\ UNCHANGED closed

\* ---- the health probe
HealthTick ==
    /\ intervals > 0
    /\ Becomes([Now EXCEPT !.probes = @ + 1], Step("health_tick", NoArg))
    /\ UNCHANGED closed

ProbeOk(read) ==
    /\ probes > 0
    /\ Becomes(ProbeSucceeded([Now EXCEPT !.probes = @ - 1], read),
               Step("probe_ok", [code |-> read, signal |-> "none"]))
    /\ UNCHANGED closed

ProbeFail ==
    /\ probes > 0
    /\ Becomes(ProbeFailed([Now EXCEPT !.probes = @ - 1]),
               Step("probe_fail", NoArg))
    /\ UNCHANGED closed

\* ============================================================ the flow server
\* MCPFlowServerNode (src/unnamed/part_003): the JSON-RPC dispatch of
\* POST /mcp over the process-wide tool registry, and the bridge from a tool
\* call to the flow that executes it.
\*
\* Not modelled here: the listener's start and stop, /health and /sse.

RpcIds == 1..MaxRpcId
ExecIds == 1..MaxExecs

\* A name is the sequence of the words it is made of, so that a suffix is
\* something a name has or has not: "echo_tool" is <<"echo", "_tool">>.
Suffix == "_tool"
EndsWith(words, suffix) == Len(words) > 0 /\ words[Len(words)] = suffix

ToolNames == {<<"echo">>, <<"echo", "_tool">>}
Descriptions == {"v1", "v2"}
\* the definitions a registry node emits (inputSchema rides along with the
\* description and is not told apart here)
ToolDefs == [name : ToolNames, description : Descriptions]

\* ---- the registry: a NodeCache, whose keys() come in insertion order
Has(reg, name) == \E i \in DOMAIN reg : reg[i].name = name
Get(reg, name) == reg[CHOOSE i \in DOMAIN reg : reg[i].name = name]

Set_appends(reg, def) == Append(reg, def)
Set(reg, def) ==
    IF Has(reg, def.name)
    THEN [i \in DOMAIN reg |-> IF reg[i].name = def.name THEN def ELSE reg[i]]
    ELSE Append(reg, def)

Del_keeps(reg, name) == reg
Del(reg, name) == SelectSeq(reg, LAMBDA d : d.name # name)

\* ---- requests
\* request.method as JSON carries it: a string, a number, or left out
Str(words) == [type |-> "string", text |-> words]
NoMethod == [type |-> "undefined", text |-> <<>>]
NumberMethod == [type |-> "number", text |-> <<>>]
Methods ==
    {Str(<<"initialize">>), Str(<<"tools/list">>), Str(<<"tools/call">>),
     Str(<<"nonexistent">>), NoMethod, NumberMethod}
    \cup {Str(n) : n \in ToolNames}

\* A JSON value one level deep: left out, or an object some of whose keys
\* name, arguments and text are there.  What sits under arguments is a leaf:
\* left out, the empty object, or an object with the key text.
Leaves == {"undefined", "{}", "{text}"}
Object(n, a, t) ==
    [present |-> TRUE, name |-> n, arguments |-> a, text |-> t]
NoParams ==
    [present |-> FALSE, name |-> <<>>, arguments |-> "undefined",
     text |-> FALSE]
EmptyObject == Object(<<>>, "undefined", FALSE)
\* the leaf, as the value it is
Lift(a) ==
    CASE a = "undefined" -> NoParams
      [] a = "{}" -> EmptyObject
      [] OTHER -> Object(<<>>, "undefined", TRUE)

\* request.params: left out, {name, arguments} or the arguments themselves
CallParams == {Object(n, a, FALSE) : n \in ToolNames, a \in Leaves}
DirectParams == {Lift(a) : a \in Leaves}
Params == {NoParams} \cup CallParams \cup DirectParams

\* the requests: params are told apart where the dispatch reads them, which
\* is under tools/call and under the methods that end in the suffix
Requests ==
    {r \in [id : RpcIds, method : Methods, params : Params] :
        CASE r.method = Str(<<"tools/call">>) ->
                 r.params \in {NoParams} \cup CallParams
          [] r.method.type = "string" /\ EndsWith(r.method.text, Suffix) ->
                 r.params \in DirectParams
          [] OTHER -> r.params = NoParams}

\* `request.method && ...`: undefined and "" are falsy
MethodTruthy(m) ==
    CASE m.type = "undefined" -> FALSE
      [] m.type = "string" -> m.text # <<>>
      [] OTHER -> TRUE

\* `${request.method}` of the error message
MethodText(m) == IF m.type = "string" THEN m.text ELSE <<m.type>>

\* ---- responses
MethodNotFound == -32601
InvalidParams == -32602
InternalError == -32603

Ok(id, what, tools) ==
    [status |-> 200, id |-> id, code |-> 0, message |-> <<>>,
     result |-> what, tools |-> tools]
Error(http, id, code, message) ==
    [status |-> http, id |-> id, code |-> code, message |-> message,
     result |-> "none", tools |-> <<>>]

\* what a handler did: replied, threw, or handed a tool to executeToolFlow
Replied(resp) ==
    [did |-> "replied", response |-> resp, tool |-> <<>>, args |-> NoParams]
Threw ==
    [did |-> "threw", response |-> Ok(0, "none", <<>>), tool |-> <<>>,
     args |-> NoParams]
Executing(name, args) ==
    [did |-> "executing", response |-> Ok(0, "none", <<>>), tool |-> name,
     args |-> args]

\* ---- the handlers
Listed(def) == [name |-> def.name, description |-> def.description]

HandleToolsList(reg, request) ==
    Replied(Ok(request.id, "tools", [i \in DOMAIN reg |-> Listed(reg[i])]))

ToolNotFound(request, name) ==
    Replied(Error(200, request.id, InvalidParams,
                  <<"Tool not found: ">> \o name))

\* destructuring request.params throws when params was left out
HandleToolCall(reg, request) ==
    IF ~request.params.present
    THEN Threw
    ELSE IF ~Has(reg, request.params.name)
    THEN ToolNotFound(request, request.params.name)
    ELSE Executing(Get(reg, request.params.name).name,
                   Lift(request.params.arguments))

\* `request.params || {}`
OrEmpty(params) == IF params.present THEN params ELSE EmptyObject

HandleDirectToolCall(reg, request) ==
    IF ~Has(reg, request.method.text)
    THEN ToolNotFound(request, request.method.text)
    ELSE Executing(Get(reg, request.method.text).name,
                   OrEmpty(request.params))

HandleInitialize(request) == Replied(Ok(request.id, "initialize", <<>>))

\* the default branch of the dispatch: endsWith is a method of strings, and
\* calling it on a truthy method that is no string throws
DirectCall(m) ==
    IF ~MethodTruthy(m)
    THEN "unknown"
    ELSE IF m.type # "string"
    THEN "throws"
    ELSE IF EndsWith(m.text, Suffix) THEN "direct" ELSE "unknown"

UnknownMethod(request) ==
    Replied(Error(200, request.id, MethodNotFound,
                  <<"Method not found: ">> \o MethodText(request.method)))

Dispatch(reg, request) ==
    CASE request.method = Str(<<"tools/list">>) -> HandleToolsList(reg, request)
      [] request.method = Str(<<"tools/call">>) -> HandleToolCall(reg, request)
      [] request.method = Str(<<"initialize">>) -> HandleInitialize(request)
      [] OTHER ->
           CASE DirectCall(request.method) = "direct" ->
                    HandleDirectToolCall(reg, request)
             [] DirectCall(request.method) = "throws" -> Threw
             [] OTHER -> UnknownMethod(request)

\* the catch block of the route
Caught_methodNotFound(request) ==
    Error(500, request.id, MethodNotFound, <<"Internal error">>)
Caught(request) ==
    Error(500, request.id, InternalError, <<"Internal error">>)

NewExec(es) ==
    LET used == {e.id : e \in es}
    IN IF ExecIds \ used = {}
       THEN MaxExecs + 1
       ELSE CHOOSE x \in ExecIds \ used : \A y \in ExecIds \ used : x <= y

\* ---- Init
FlowServerInit ==
    /\ toolRegistry = <<>>
    /\ lastRegistered = [n \in ToolNames |-> "none"]
    /\ unregistered = {}
    /\ executions = {}
    /\ fev = [kind |-> "init"]

\* ---- the registry events
RegisterEvent(def) ==
    /\ toolRegistry' = Set(toolRegistry, def)
    /\ lastRegistered' = [lastRegistered EXCEPT ![def.name] = def.description]
    /\ unregistered' = unregistered \ {def.name}
    /\ fev' = [kind |-> "register", name |-> def.name]
    /\ UNCHANGED executions

UnregisterEvent(name) ==
    /\ toolRegistry' = Del(toolRegistry, name)
    /\ unregistered' = IF lastRegistered[name] # "none"
                       THEN unregistered \cup {name}
                       ELSE unregistered
    /\ fev' = [kind |-> "unregister", name |-> name]
    /\ UNCHANGED <<lastRegistered, executions>>

\* ---- the execution bridge: executeToolFlow
\* An execution is the promise of one executeToolFlow call with the timeout
\* and the 'input' listener the call set up.  Listeners are called the way an
\* EventEmitter calls them: each one registered when the message arrives
\* sees it.  A response without payload is not among the messages.
Outcomes == {"error", "r1", "r2"}
InputMsgs ==
    {[topic |-> "other", executionId |-> 1, outcome |-> "r1"]}
    \cup [topic : {"mcp-tool-response"}, executionId : ExecIds,
          outcome : Outcomes]

Started(x, rpc) ==
    [id |-> x, rpc |-> rpc, timer |-> TRUE, listening |-> TRUE,
     pending |-> TRUE]

Matches_anyId(e, msg) == msg.topic = "mcp-tool-response"
Matches(e, msg) ==
    msg.topic = "mcp-tool-response" /\ msg.executionId = e.id

ClearTimeout_keeps(e) == e
ClearTimeout(e) == [e EXCEPT !.timer = FALSE]
RemoveListener(e) == [e EXCEPT !.listening = FALSE]
\* resolve and reject: a promise settles once
Settle(e) == [e EXCEPT !.pending = FALSE]

\* what the route answers when the promise settles
Resolved(e, msg) == Ok(e.rpc, msg.outcome, <<>>)
Rejected_asInvalidParams(e, message) ==
    Error(200, e.rpc, InvalidParams, message)
Rejected(e, message) == Error(200, e.rpc, InternalError, message)
ToolReply(e, msg) ==
    IF msg.outcome = "error"
    THEN Rejected(e, <<"tool error">>)
    ELSE Resolved(e, msg)

ResponseHandler(e, msg) ==
    IF e.listening /\ Matches(e, msg)
    THEN Settle(RemoveListener(ClearTimeout(e)))
    ELSE e

\* the replies a step makes: one for each promise it settles
Answers(es, response(_)) ==
    {[execution |-> e.id, response |-> response(e)] : e \in es}

\* an execution is there for as long as its timeout or its listener is
InFlight(es) == {e \in es : e.timer \/ e.listening}

\* ---- POST /mcp
Post(request) ==
    LET h == Dispatch(toolRegistry, request)
        x == NewExec(executions)
    IN /\ h.did = "executing" => x \in ExecIds
       /\ executions' =
              IF h.did = "executing"
              THEN executions \cup {Started(x, request.id)}
              ELSE executions
       /\ fev' = [kind |-> "post", request |-> request,
                  replied |-> h.did # "executing",
                  response |-> IF h.did = "threw"
                               THEN Caught(request)
                               ELSE h.response,
                  published |-> IF h.did = "executing"
                                THEN <<[topic |-> "mcp-tool-execute",
                                        toolName |-> h.tool,
                                        arguments |-> h.args,
                                        executionId |-> x]>>
                                ELSE <<>>]
       /\ UNCHANGED <<toolRegistry, lastRegistered, unregistered>>

\* ---- a message arrives at the node's input
Input(msg) ==
    LET hit == {e \in executions : e.listening /\ Matches(e, msg)}
    IN /\ executions' =
              InFlight({ResponseHandler(e, msg) : e \in executions})
       /\ fev' = [kind |-> "input", msg |-> msg, saw |-> hit,
                  replies |-> Answers({e \in hit : e.pending},
                                      LAMBDA e : ToolReply(e, msg))]
       /\ UNCHANGED <<toolRegistry, lastRegistered, unregistered>>

\* ---- the 30 s timeout of an execution fires; its listener stays
ExecTimeout(e) ==
    /\ e \in executions
    /\ e.timer
    /\ executions' =
           InFlight((executions \ {e})
                    \cup {Settle([e EXCEPT !.timer = FALSE])})
    /\ fev' = [kind |-> "exec_timeout", execution |-> e.id,
               saw |-> {e},
               replies |-> Answers({x \in {e} : x.pending},
                                   LAMBDA x : Rejected(x,
                                       <<"Tool execution timeout">>))]
    /\ UNCHANGED <<toolRegistry, lastRegistered, unregistered>>

\* ============================================ the flow server's lifecycle
\* MCPFlowServerNode's startServer and stopServer (src/unnamed/part_003),
\* the http.Server they create and close, and the GET /sse responses, which
\* the server never ends.  http.Server.close() stops listening and emits
\* 'close', which runs the callbacks it was given, once every connection
\* has ended.  A start is not issued while a listen is under way.

NotListening ==
    /\ flowIsRunning = FALSE
    /\ httpServer = "null"
    /\ sseClients = 0
    /\ closeCallbacks = <<>>
    /\ flowTimers = 0
    /\ lev = [kind |-> "init"]

\* the node as its constructor leaves it
FlowServerCreated == FlowServerInit /\ NotListening

\* the fields the handlers below transform; sent and calls collect what the
\* running callback emits and which callbacks it invokes
Lifecycle ==
    [isRunning |-> flowIsRunning, httpServer |-> httpServer,
     closeCallbacks |-> closeCallbacks, timers |-> flowTimers,
     sent |-> <<>>, calls |-> <<>>]

\* "default": () => {} ; "restart": the callback 'restart' hands to
\* stopServer, which arms the delayed start ; "done": the close handler's
Invoke(s, cb, message) ==
    LET s1 == [s EXCEPT !.calls = Append(@, [cb |-> cb, message |-> message])]
    IN IF cb = "restart" THEN [s1 EXCEPT !.timers = @ + 1] ELSE s1

\* ---- node.startServer (every caller passes the default callback)
FlowStartServer(s) ==
    IF s.isRunning
    THEN Invoke(s, "default", "Server already running")
    ELSE [s EXCEPT !.httpServer = "starting"]

\* the callback of httpServer.listen
OnListening(s) ==
    Invoke([s EXCEPT !.isRunning = TRUE, !.httpServer = "listening",
                     !.sent = Append(@, "mcp-server-started")],
           "default", "Server started")

\* ---- node.stopServer
\* the callback stopServer gives to httpServer.close()
OnClosed(s, cb) ==
    Invoke([s EXCEPT !.isRunning = FALSE,
                     !.sent = Append(@, "mcp-server-stopped")],
           cb, "Server stopped")

FlowStopServer(s, cb) ==
    IF ~s.isRunning
    THEN Invoke(s, cb, "Server already stopped")
    ELSE IF s.httpServer # "null"
    THEN [s EXCEPT !.httpServer = "closing",
                   !.closeCallbacks = Append(@, cb)]
    ELSE Invoke([s EXCEPT !.isRunning = FALSE], cb, "Server stopped")

\* the server emits 'close': the callbacks run in the order they were given
RECURSIVE RunAll(_, _)
RunAll(s, cbs) ==
    IF cbs = <<>> THEN s ELSE RunAll(OnClosed(s, Head(cbs)), Tail(cbs))

\* ---- the step of one callback
LifecycleBecomes(s, kind) ==
    /\ Len(s.closeCallbacks) <= MaxStops
    /\ s.timers <= MaxStops
    /\ flowIsRunning' = s.isRunning
    /\ httpServer' = s.httpServer
    /\ closeCallbacks' = s.closeCallbacks
    /\ flowTimers' = s.timers
    /\ lev' = [kind |-> kind, wasRunning |-> flowIsRunning,
               clients |-> sseClients, sent |-> s.sent, calls |-> s.calls]

\* ---- the commands of the input handler
FlowCmdStart ==
    /\ httpServer # "starting"
    /\ LifecycleBecomes(FlowStartServer(Lifecycle), "start")
    /\ UNCHANGED sseClients

FlowCmdStop ==
    /\ LifecycleBecomes(FlowStopServer(Lifecycle, "default"), "stop")
    /\ UNCHANGED sseClients

FlowCmdRestart ==
    /\ LifecycleBecomes(FlowStopServer(Lifecycle, "restart"), "restart")
    /\ UNCHANGED sseClients

\* the delayed start of 'restart'
FlowStartFire ==
    /\ flowTimers > 0
    /\ httpServer # "starting"
    /\ LifecycleBecomes(FlowStartServer([Lifecycle EXCEPT !.timers = @ - 1]),
                        "start_fire")
    /\ UNCHANGED sseClients

\* ---- the http server
Listening ==
    /\ httpServer = "starting"
    /\ LifecycleBecomes(OnListening(Lifecycle), "listening")
    /\ UNCHANGED sseClients

\* GET /sse: the response stays open, with its keep-alive interval
SSEClientConnects ==
    /\ httpServer = "listening"
    /\ sseClients < MaxClients
    /\ sseClients' = sseClients + 1
    /\ LifecycleBecomes(Lifecycle, "sse_open")

\* the client goes away: req.on('close')
SSEClientLeaves ==
    /\ sseClients > 0
    /\ sseClients' = sseClients - 1
    /\ LifecycleBecomes(Lifecycle, "sse_close")

\* every connection has ended: the closing server emits 'close'
ServerClosed ==
    /\ httpServer = "closing"
    /\ sseClients = 0
    /\ LifecycleBecomes(RunAll([Lifecycle EXCEPT !.httpServer = "closed",
                                                 !.closeCallbacks = <<>>],
                               closeCallbacks),
                        "closed")
    /\ UNCHANGED sseClients

\* ===================================================== the tool-registry node
\* MCPToolRegistryNode (src/mcp-server.js): a node that owns one tool
\* definition and registers it with, and unregisters it from, the registry
\* of the flow server.  RED.events.emit calls the listeners of part_003 on
\* the spot, so the registry changes within the step that emits.
\*
\* Not modelled here: the 'status' command, the tool schema, and the status
\* and the messages the node sends.

\* a node and the registry, as a handler finds and leaves them
RegisterTool(s) ==
    IF s.node.toolName = <<>> \/ s.node.isRegistered
    THEN s
    ELSE [node |-> [s.node EXCEPT !.isRegistered = TRUE],
          reg |-> Set(s.reg, [name |-> s.node.toolName,
                              description |-> s.node.toolDescription])]

UnregisterTool(s) ==
    IF ~s.node.isRegistered
    THEN s
    ELSE [node |-> [s.node EXCEPT !.isRegistered = FALSE],
          reg |-> Del(s.reg, s.node.toolName)]

\* the 100 ms timeout of the re-registration is armed
UpdateRegistration(s) ==
    IF s.node.isRegistered
    THEN LET u == UnregisterTool(s)
         IN [u EXCEPT !.node.timers = @ + 1]
    ELSE s

\* the commands: msg.topic, and for 'update' msg.payload.toolName and
\* msg.payload.toolDescription, each of them there or left out
RegistryCommands ==
    {m \in [command : {"register", "unregister", "update"},
            toolName : ToolNames \cup {<<>>},
            toolDescription : Descriptions \cup {""}] :
        m.command # "update" => m.toolName = <<>> /\ m.toolDescription = ""}

OnRegistryInput(s, msg) ==
    CASE msg.command = "register" -> RegisterTool(s)
      [] msg.command = "unregister" -> UnregisterTool(s)
      [] OTHER ->
           UpdateRegistration(
               [s EXCEPT
                   !.node.toolName =
                       IF msg.toolName # <<>> THEN msg.toolName ELSE @,
                   !.node.toolDescription =
                       IF msg.toolDescription # ""
                       THEN msg.toolDescription ELSE @])

\* ---- Init: the nodes as their constructors leave them, with the 500 ms
\* timeout of the auto-registration armed or not (config.autoRegister)
RegistryNodeStates ==
    [toolName : ToolNames, toolDescription : Descriptions,
     isRegistered : {FALSE}, timers : {0, 1}, closed : {FALSE}]

NoRegistryNodes == registryNodes = <<>> /\ rev = [kind |-> "init"]

\* ---- the steps of the node n
RegistryStep(n, t, kind, msg) ==
    /\ t.node.timers <= MaxRegTimers
    /\ registryNodes' = [registryNodes EXCEPT ![n] = t.node]
    /\ toolRegistry' = t.reg
    /\ rev' = [kind |-> kind, node |-> n, msg |-> msg,
               was |-> registryNodes[n]]
    /\ UNCHANGED <<lastRegistered, unregistered, executions, fev>>

Here(n) == [node |-> registryNodes[n], reg |-> toolRegistry]
NoCommand == [command |-> "none", toolName |-> <<>>, toolDescription |-> ""]

RegistryInput(n, msg) ==
    /\ ~registryNodes[n].closed
    /\ RegistryStep(n, OnRegistryInput(Here(n), msg), "input", msg)

\* a registration timeout fires, whether the node was closed or not
RegistryTimerFire(n) ==
    /\ registryNodes[n].timers > 0
    /\ RegistryStep(n, RegisterTool([Here(n) EXCEPT !.node.timers = @ - 1]),
                    "timer", NoCommand)

RegistryClose(n) ==
    /\ ~registryNodes[n].closed
    /\ RegistryStep(n, [UnregisterTool(Here(n)) EXCEPT !.node.closed = TRUE],
                    "close", NoCommand)

\* ================================================ the client's handshake
\* fetchMCPHandshake (src/unnamed/part_001): 500 ms after an SSE or a
\* WebSocket connection opened the client asks the server to initialize and,
\* from the callback of that request, for its tools; it reports each answer
\* in a 'handshake' message.  The requests go through sendRequest, with the
\* callbacks of fetchMCPHandshake in place of the input handler's.

\* setTimeout(() => node.fetchMCPHandshake(), 500) of the open handlers
ArmHandshake_twice(n) == n + 2
ArmHandshake(n) == n + 1

Armed ==
    /\ handshakeTimers < MaxHandshakes
    /\ handshakeTimers' = ArmHandshake(handshakeTimers)
    /\ UNCHANGED handshakeCallbacks

NoHandshake == handshakeTimers = 0 /\ handshakeCallbacks = {}

\* the tools a server lists
ToolLists == {<<>>, <<<<"echo">>>>}
HandshakeMsg(type, tools) ==
    [topic |-> "handshake", type |-> type, availableTools |-> tools]

\* node.sendRequest(method, params, callback) with a callback of the
\* handshake, on the tables s; o is what connection.send does.  Both
\* callbacks answer an error with a warning and nothing else.
HandshakeRequest_unguarded(s, method, o) ==
    LET r == s.nextReq
        made == [s EXCEPT !.nextReq = r + 1,
                          !.callbacks = @ \cup {[req |-> r,
                                                 method |-> method]}]
    IN CASE connectionType = "websocket" /\ o = "throws" ->
                [s EXCEPT !.nextReq = r + 1]
         [] connectionType = "websocket" ->
                [made EXCEPT !.pendingRequests = @ \cup {r},
                             !.reqTimers = @ \cup {r}]
         [] OTHER -> [made EXCEPT !.posts = @ \cup {r}]
HandshakeRequest(s, method, o) ==
    LET r == s.nextReq
        made == [s EXCEPT !.nextReq = r + 1,
                          !.callbacks = @ \cup {[req |-> r,
                                                 method |-> method]}]
    IN CASE ~isConnected -> s
         [] connectionType = "websocket" /\ o = "throws" ->
                [s EXCEPT !.nextReq = r + 1]
         [] connectionType = "websocket" ->
                [made EXCEPT !.pendingRequests = @ \cup {r},
                             !.reqTimers = @ \cup {r}]
         [] OTHER -> [made EXCEPT !.posts = @ \cup {r}]

Tables ==
    [pendingRequests |-> pendingRequests, reqTimers |-> reqTimers,
     posts |-> posts, nextReq |-> nextReq, callbacks |-> handshakeCallbacks]

TablesBecome(s) ==
    /\ s.nextReq <= MaxRequests + 1
    /\ pendingRequests' = s.pendingRequests
    /\ reqTimers' = s.reqTimers
    /\ posts' = s.posts
    /\ nextReq' = s.nextReq
    /\ handshakeCallbacks' = s.callbacks

Sends == IF connectionType = "websocket" THEN SendOutcomes ELSE {"sent"}
MethodOf(r) ==
    (CHOOSE cb \in handshakeCallbacks : cb.req = r).method

\* ---- the 500 ms timeout fires: fetchMCPHandshake
HandshakeFire(o) ==
    /\ handshakeTimers > 0
    /\ handshakeTimers' = handshakeTimers - 1
    /\ TablesBecome(HandshakeRequest(Tables, "initialize", o))
    /\ out' = <<>>
    /\ ev' = [kind |-> "handshake", started |-> isConnected,
              sent |-> nextReq \in posts' \cup pendingRequests']
    /\ UNCHANGED <<config, isConnected, connection, conns, reconnectTimer,
                   timers>>

\* ---- the POST of a request of the handshake is answered (SSE): the
\* callback reports the answer, and the one of initialize asks for the tools
HandshakePostResolve(r, tools, o) ==
    /\ r \in posts
    /\ \E cb \in handshakeCallbacks : cb.req = r
    /\ LET left == [Tables EXCEPT !.posts = @ \ {r}]
       IN IF MethodOf(r) = "initialize"
          THEN /\ TablesBecome(HandshakeRequest(left, "tools/list", o))
               /\ out' = <<HandshakeMsg("initialization", <<>>)>>
          ELSE /\ TablesBecome(left)
               /\ out' = <<HandshakeMsg("tools_discovered", tools)>>
    /\ ev' = [kind |-> "handshake_reply", req |-> r, method |-> MethodOf(r)]
    /\ UNCHANGED <<config, isConnected, connection, conns, reconnectTimer,
                   timers, handshakeTimers>>

\* ---- the POST fails: the callback warns
HandshakePostReject_asksTools(r) ==
    /\ r \in posts
    /\ \E cb \in handshakeCallbacks : cb.req = r
    /\ LET left == [Tables EXCEPT !.posts = @ \ {r}]
       IN IF MethodOf(r) = "initialize"
          THEN TablesBecome(HandshakeRequest(left, "tools/list", "sent"))
          ELSE TablesBecome(left)
    /\ out' = <<>>
    /\ ev' = [kind |-> "handshake_failed", req |-> r, method |-> MethodOf(r)]
    /\ UNCHANGED <<config, isConnected, connection, conns, reconnectTimer,
                   timers, handshakeTimers>>
HandshakePostReject(r) ==
    /\ r \in posts
    /\ \E cb \in handshakeCallbacks : cb.req = r
    /\ TablesBecome([Tables EXCEPT !.posts = @ \ {r}])
    /\ out' = <<>>
    /\ ev' = [kind |-> "handshake_failed", req |-> r, method |-> MethodOf(r)]
    /\ UNCHANGED <<config, isConnected, connection, conns, reconnectTimer,
                   timers, handshakeTimers>>

\* ---- the request timeout of the WebSocket case fires: the callback warns
HandshakeRequestTimeout(r) ==
    /\ r \in reqTimers
    /\ \E cb \in handshakeCallbacks : cb.req = r
    /\ TablesBecome([Tables EXCEPT !.reqTimers = @ \ {r},
                                   !.pendingRequests = @ \ {r}])
    /\ out' = <<ErrorMsg("Request timeout", r)>>
    /\ ev' = [kind |-> "handshake_failed", req |-> r, method |-> MethodOf(r)]
    /\ UNCHANGED <<config, isConnected, connection, conns, reconnectTimer,
                   timers, handshakeTimers>>

\* ======================================= the callbacks of the connect calls
\* node.connect(callback) hands its callback to the transport's strategy,
\* whose handlers close over it.  A connect call on a connected session
\* answers 'Already connected' through the callback at once and creates
\* nothing, so the table below has the calls that created a connection
\* object (for HTTP, the probe).  The message the input handler's callback
\* emits when it is invoked is left out of `out`.
NoCall == [made |-> FALSE, calls |-> 0]
NoConnectCalls == connectCallbacks = [c \in ConnIds |-> NoCall]

\* node.connect creates a connection object for its callback
Made ==
    connectCallbacks' =
        IF isConnected
        THEN connectCallbacks
        ELSE [connectCallbacks EXCEPT ![NewConn] = [made |-> TRUE, calls |-> 0]]

\* callback(...) in a handler of the connection object c
Called(c) ==
    /\ connectCallbacks[c].calls < MaxCalls
    /\ connectCallbacks' = [connectCallbacks EXCEPT ![c].calls = @ + 1]

\* a handler without a call of the callback
NotCalled == UNCHANGED connectCallbacks

\* ============================================== the client's example maker
\* generateExampleParams (src/unnamed/part_001): the example parameters the
\* 'tools_discovered' message shows for the first tool, made from the
\* tool's input schema.  An object is the sequence of its members' values,
\* in the order of its keys.

\* JSON values
Undefined == [kind |-> "undefined", text |-> "", num |-> 0]
String(t) == [kind |-> "string", text |-> t, num |-> 0]
Number(n) == [kind |-> "number", text |-> "", num |-> n]
True == [kind |-> "boolean", text |-> "true", num |-> 0]
EmptyObj == [kind |-> "object", text |-> "", num |-> 0]
EmptyArr == [kind |-> "array", text |-> "", num |-> 0]

\* a property definition: its type, its enum (left out, [] or ["x", "y"])
\* and its description (left out, or a text)
PropTypes ==
    {"string", "number", "integer", "boolean", "object", "array", "null"}
NoEnum == [present |-> FALSE, values |-> <<>>]
Enums == {NoEnum, [present |-> TRUE, values |-> <<>>],
          [present |-> TRUE, values |-> <<"x", "y">>]}
PropDefs == [type : PropTypes, enum : Enums, description : {"", "d"}]

\* a schema: left out, without properties, or with them
NoSchema == [present |-> FALSE, hasProperties |-> FALSE, properties |-> <<>>]
Schemas ==
    {NoSchema,
     [present |-> TRUE, hasProperties |-> FALSE, properties |-> <<>>]}
    \cup {[present |-> TRUE, hasProperties |-> TRUE, properties |-> ps] :
              ps \in UNION {[1..n -> PropDefs] : n \in 0..MaxProps}}

ExampleNumber == 123

\* propDef.enum[0]
FirstOf_last(values) ==
    IF values = <<>> THEN Undefined ELSE String(values[Len(values)])
FirstOf(values) == IF values = <<>> THEN Undefined ELSE String(values[1])

\* a || b on texts: the empty text is falsy
Or(a, b) == IF a # "" THEN a ELSE b

ExampleOf(propDef) ==
    CASE propDef.type = "string" ->
             IF propDef.enum.present
             THEN FirstOf(propDef.enum.values)
             ELSE String(Or(propDef.description, "example_string"))
      [] propDef.type \in {"number", "integer"} -> Number(ExampleNumber)
      [] propDef.type = "boolean" -> True
      [] propDef.type = "object" -> EmptyObj
      [] propDef.type = "array" -> EmptyArr
      [] OTHER -> String(Or(propDef.description, "example_value"))

GenerateExampleParams(sch) ==
    IF ~sch.present \/ ~sch.hasProperties
    THEN <<>>
    ELSE [i \in DOMAIN sch.properties |-> ExampleOf(sch.properties[i])]

NotMade == [made |-> FALSE, params |-> <<>>]
NoExample == schema = NoSchema /\ example = NotMade

\* a tools list arrived whose first tool has the input schema sch
ToolListed(sch) == schema = sch /\ example = NotMade

\* the callback of tools/list builds mcpSyntax.exampleCall
MakeExample ==
    /\ example' = [made |-> TRUE, params |-> GenerateExampleParams(schema)]
    /\ UNCHANGED schema

\* ========================================================= the MCP Tool node
\* MCPToolNode (src/mcp-tool.js): the parameters its input handler sends
\* with a tool call.  A set of parameters gives each key the value it has or
\* "absent"; a value is named after the source it comes from.
Keys == {"project", "text"}
Absent == "absent"
ParamsOf(value) == [Keys -> {Absent, value}]
NoParameters == [k \in Keys |-> Absent]

\* msg.payload: a text, or an object with or without the members method and
\* params and with members of its own
Payloads ==
    {[type |-> "string", method |-> FALSE, hasParams |-> FALSE,
      params |-> NoParameters, own |-> NoParameters]}
    \cup {p \in [type : {"object"}, method : BOOLEAN, hasParams : BOOLEAN,
                  params : ParamsOf("params"), own : ParamsOf("payload")] :
              ~p.hasParams => p.params = NoParameters}

\* msg.project: left out, the empty text, or a text
ToolMsgs == [payload : Payloads, project : {Absent, "", "msg"}]

\* Object.assign(target, source)
Assign_keepsTarget(target, source) ==
    [k \in Keys |-> IF target[k] # Absent THEN target[k] ELSE source[k]]
Assign(target, source) ==
    [k \in Keys |-> IF source[k] # Absent THEN source[k] ELSE target[k]]

\* `if (msg.project)`: left out and "" are falsy
Given(value) == value \notin {Absent, ""}

MergeParams(defaults, msg) ==
    LET p == msg.payload
        merged ==
            IF p.type = "object" /\ p.hasParams
            THEN Assign(defaults, p.params)
            ELSE IF p.type = "object" /\ ~p.method
            THEN Assign(defaults, p.own)
            ELSE defaults
    IN [merged EXCEPT !["project"] =
                          IF Given(msg.project) THEN msg.project ELSE @]

ToolNodeAtRest == toolDefaults = NoParameters /\ tev = [kind |-> "init"]

ToolInput(msg) ==
    /\ tev' = [kind |-> "input", msg |-> msg,
               params |-> MergeParams(toolDefaults, msg)]
    /\ UNCHANGED toolDefaults

\* ============================================================= specifications
\* The three nodes share no state.  Under the specification of one of them
\* the other two stay as their constructors leave them (in one configuration).
ClientAtRest ==
    /\ Init /\ connectionType = "http" /\ ~cfgReconnect /\ NoHandshake
    /\ NoConnectCalls
SupervisorAtRest ==
    SupervisorInit /\ serverType = "python" /\ serverPath = ""

\* ---- the client
ClientInit ==
    /\ Init /\ NoHandshake /\ NoConnectCalls
    /\ SupervisorAtRest /\ FlowServerCreated /\ NoRegistryNodes
    /\ NoExample /\ ToolNodeAtRest
Spec == ClientInit /\ [][Next]_vars

\* ---- the supervisor
SupervisorOnly == UNCHANGED <<clientVars, flowVars, restVars>>

SupervisorNext ==
    \/ SupCmdStart /\ SupervisorOnly
    \/ SupCmdStop /\ SupervisorOnly
    \/ SupCmdRestart /\ SupervisorOnly
    \/ SupClose /\ SupervisorOnly
    \/ RestartFire /\ SupervisorOnly
    \/ StartFire /\ SupervisorOnly
    \/ KillFire /\ SupervisorOnly
    \/ \E p \in ProcIds : StartupMarker(p) /\ SupervisorOnly
    \/ \E p \in ProcIds, e \in Exits : Exit(p, e) /\ SupervisorOnly
    \/ HealthTick /\ SupervisorOnly
    \/ \E read \in StatusReads : ProbeOk(read) /\ SupervisorOnly
    \/ ProbeFail /\ SupervisorOnly

SupervisorStart ==
    /\ ClientAtRest /\ SupervisorInit /\ FlowServerCreated /\ NoRegistryNodes
    /\ NoExample /\ ToolNodeAtRest
SupervisorSpec == SupervisorStart /\ [][SupervisorNext]_vars

SupervisorTypeOK ==
    /\ serverProcess \in ProcIds \cup {Null}
    /\ serverProcess # Null => serverProcess \in DOMAIN procs
    /\ isRunning \in BOOLEAN
    /\ restartCount \in 0..maxRestarts
    /\ healthCheckTimer \in BOOLEAN
    /\ procs \in Seq([term : BOOLEAN, kill : BOOLEAN])
    /\ Len(procs) <= MaxProcs
    /\ restartTimers \in 0..MaxPending
    /\ startTimers \in 0..MaxPending
    /\ killTimers \in 0..MaxPending
    /\ intervals \in 0..1
    /\ (intervals = 1) = healthCheckTimer
    /\ probes \in 0..MaxPending

\* ---- the flow server
FlowServerOnly == UNCHANGED <<clientVars, supervisorVars, restVars>>

\* every registration, every request, and one tool call at a time
OneAtATime == Cardinality(executions') <= 1

FlowServerNext ==
    \/ \E def \in ToolDefs : RegisterEvent(def) /\ FlowServerOnly
    \/ \E name \in ToolNames : UnregisterEvent(name) /\ FlowServerOnly
    \/ \E request \in Requests :
           Post(request) /\ OneAtATime /\ FlowServerOnly
    \/ \E msg \in InputMsgs : Input(msg) /\ FlowServerOnly
    \/ \E e \in executions : ExecTimeout(e) /\ FlowServerOnly

FlowServerStart ==
    /\ ClientAtRest /\ SupervisorAtRest /\ FlowServerCreated /\ NoRegistryNodes
    /\ NoExample /\ ToolNodeAtRest
FlowServerSpec == FlowServerStart /\ [][FlowServerNext]_vars

FlowServerTypeOK ==
    /\ \A i \in DOMAIN toolRegistry : toolRegistry[i] \in ToolDefs
    /\ \A i, j \in DOMAIN toolRegistry :
           toolRegistry[i].name = toolRegistry[j].name => i = j
    /\ unregistered \subseteq ToolNames
    /\ \A e \in executions : e.id \in ExecIds /\ e.rpc \in RpcIds
    /\ \A e, x \in executions : e.id = x.id => e = x

\* ------------------------------------------------------------------- claims
\* the entries the last step dropped from the pending table
Removed ==
    CASE ev.kind \in {"inbound", "request_timeout"} -> ev.removed
      [] ev.kind = "disconnect" -> ev.pending \ pendingRequests
      [] OTHER -> {}

\* the callers the last step called back with one of the errors `whats`
Failed(whats) ==
    {ev.calls[i].req : i \in {j \in DOMAIN ev.calls : ev.calls[j].what \in whats}}

\* the connection objects created and not closed, nor on their way down
LiveConns == {c \in ConnIds : conns[c] \in {"connecting", "open"}}

\* C1: on a WebSocket session, an inbound frame that carries the id of an
\* in-flight request calls that request's callback with the response, once,
\* and calls no other request's callback.
C1_ResponseReachesCaller ==
    (ev.kind = "inbound" /\ ev.transport = "websocket" /\ ev.inFlight)
        => ev.calls = <<Call(ev.payload.id, "response")>>

\* C2: a pending entry leaves the table on one of two paths only, the
\* matching reply or the request's timeout, and on the timeout path (no
\* reply came) its caller is resolved with the timeout error.
C2_RemovedByReplyOrTimeout ==
    \A r \in Removed :
        \/ ev.kind = "inbound" /\ ev.payload.id = r
        \/ ev.kind = "request_timeout" /\ ev.calls = <<Call(r, "timeout")>>

\* C3: disconnect on a session with k >= 1 pending requests fails every one
\* of them (each caller is called back with an error) and leaves the pending
\* table empty.
C3_DisconnectFailsPending ==
    (ev.kind = "disconnect" /\ ev.pending # {})
        => /\ pendingRequests = {}
           /\ ev.pending \subseteq Failed({"not_connected", "timeout"})

\* C4: when disconnect returns, in every state it was called in, no
\* reconnect timer remains armed (so that no automatic connect follows).
C4_DisconnectCancelsReconnect ==
    ev.kind = "disconnect" => (timers = {} /\ reconnectTimer = Null)

\* C5: with auto-reconnect disabled in the configuration, no transport
\* error arms a reconnect timer.
C5_NoReconnectWhenDisabled ==
    ~cfgReconnect => (timers = {} /\ reconnectTimer = Null)

\* C6: a streaming session holds at most one live connection object.
C6_OneLiveConnection ==
    connectionType \in {"sse", "websocket"} => Cardinality(LiveConns) <= 1

\* C7: at most one reconnect timer is armed at any time.
C7_SingleReconnectTimer ==
    Cardinality(timers) <= 1
\* an error handler called scheduleReconnect while a timer was pending
C7_Witness ==
    /\ ev.kind = "transport_error"
    /\ ev.hadTimer
    /\ reconnect
    /\ Cardinality(timers) = 1

\* C8: sendRequest on a session that is not connected calls its caller back
\* with the not-connected error, sends nothing and leaves the pending table
\* as it was.
C8_NotConnectedFailsFast ==
    (ev.kind = "request" /\ ~ev.wasConnected)
        => /\ ev.calls = <<Call(ev.req, "not_connected")>>
           /\ ~ev.sent
           /\ pendingRequests = ev.pending
           /\ ev.req \notin (pendingRequests \cup reqTimers \cup posts)
\* a request refused while earlier requests are still pending
C8_Witness ==
    /\ ev.kind = "request"
    /\ ~ev.wasConnected
    /\ ev.pending # {}
    /\ ev.calls = <<Call(ev.req, "not_connected")>>

\* C9: on an SSE session, an event that carries the id of an in-flight
\* request is forwarded tagged 'response'; only events whose id matches no
\* in-flight request are forwarded tagged 'message'.
C9_SSEReplyTaggedResponse ==
    (ev.kind = "inbound" /\ ev.transport = "sse")
        => /\ ev.inFlight => (Len(out) = 1 /\ out[1].topic = "response")
           /\ (Len(out) = 1 /\ out[1].topic = "message") => ~ev.inFlight

\* C10: every inbound SSE event or WebSocket frame produces exactly one
\* output message, tagged 'response', 'message' or 'raw'; a payload that is
\* not JSON is forwarded unchanged, tagged 'raw'.
C10_OneOutputPerInbound ==
    ev.kind = "inbound"
        => /\ Len(out) = 1
           /\ out[1].topic \in {"response", "message", "raw"}
           /\ JSONParse(ev.payload).threw => out[1] = RawMsg(ev.payload)
\* a payload that is not JSON arrived and went out as 'raw'
C10_Witness ==
    /\ ev.kind = "inbound"
    /\ JSONParse(ev.payload).threw
    /\ out = <<RawMsg(ev.payload)>>

\* ------------------------------------------------- claims on the supervisor
\* the steps that run node.startServer
StartSteps == {"start", "restart_fire", "start_fire"}

\* C11: with maxRestarts = N, a process whose every run exits non-zero
\* without a startup marker is restarted N times and no more: each non-zero
\* exit under the budget counts one restart and arms its delayed start, which
\* spawns the next run; the exit that finds the budget used up arms nothing,
\* leaves the supervisor stopped without a process handle, and emits the exit
\* event with the code and the signal.
C11_RestartBudget ==
    /\ restartCount <= maxRestarts
    /\ (sev.kind = "exit" /\ NonZero(sev.arg)) =>
           IF sev.pre.restartCount < maxRestarts
           THEN /\ restartCount = sev.pre.restartCount + 1
                /\ sev.armed
                /\ status = "restarting..."
                /\ sev.sent = <<>>
           ELSE /\ restartCount = sev.pre.restartCount
                /\ ~sev.armed
                /\ status = "stopped"
                /\ ~isRunning
                /\ serverProcess = Null
                /\ sev.sent = <<ExitMsg(sev.arg)>>
    /\ (sev.kind = "restart_fire" /\ ~sev.pre.isRunning) => sev.spawned = 1

C11_Witness ==
    /\ sev.kind = "exit"
    /\ sev.arg.code = "1"
    /\ sev.pre.restartCount = maxRestarts
    /\ procs = <<>>

\* C12: startServer, called while a child process handle exists (the time
\* between spawn and the first startup marker included), reports 'already
\* running' and spawns no second process.
C12_StartRefusedWhileHandle ==
    (sev.kind \in StartSteps /\ sev.pre.serverProcess # Null) =>
        /\ sev.spawned = 0
        /\ Len(sev.calls) = 1
        /\ sev.calls[1].result = Result(FALSE, "Server already running")

\* C13: the exit of a process that an explicit stop ended with its
\* termination signal arms no restart and does not count one.
C13_StopSticks ==
    (sev.kind = "exit" /\ sev.arg.signal = "SIGTERM") =>
        /\ ~sev.armed
        /\ restartCount = sev.pre.restartCount

\* C14: a stop command or the close of the node, run while the supervisor
\* holds a child process handle (in any state, 'starting' included), sends
\* that process the graceful termination signal.
C14_TeardownSignals ==
    (sev.kind \in {"stop", "close"} /\ sev.pre.serverProcess # Null) =>
        procs[sev.pre.serverProcess].term

\* C15: while the supervisor is running, a failed health probe sets the
\* status to 'unhealthy' and a successful one sets it to 'running'; neither
\* signals the process nor changes isRunning.
C15_ProbeSetsStatus ==
    (sev.kind \in {"probe_ok", "probe_fail"} /\ sev.pre.isRunning) =>
        /\ status = (IF sev.kind = "probe_ok" THEN "running" ELSE "unhealthy")
        /\ isRunning
        /\ sev.signals = <<>>

\* C16: startServer with an empty server path fails synchronously for every
\* server type: the callback receives an error, an error is reported,
\* nothing is spawned and the supervisor stays not running.
C16_EmptyPathFailsFast ==
    (sev.kind \in StartSteps /\ ~sev.pre.isRunning /\ serverPath = "") =>
        /\ sev.spawned = 0
        /\ sev.errors # <<>>
        /\ Len(sev.calls) = 1
        /\ sev.calls[1].error # NoError
        /\ ~isRunning

\* ---- the execution bridge of the flow server
\* one registered tool and the calls of it, as many at a time as there are
\* execution ids
BridgeDefs == {[name |-> <<"echo", Suffix>>, description |-> "v1"]}
BridgeRequests ==
    {r \in Requests :
        \/ r.method = Str(<<"echo", Suffix>>) /\ r.params = EmptyObject
        \/ r.method = Str(<<"tools/call">>)
               /\ r.params = Object(<<"echo", Suffix>>, "{text}", FALSE)}

BridgeNext ==
    \/ \E def \in BridgeDefs : RegisterEvent(def) /\ FlowServerOnly
    \/ \E request \in BridgeRequests : Post(request) /\ FlowServerOnly
    \/ \E msg \in InputMsgs : Input(msg) /\ FlowServerOnly
    \/ \E e \in executions : ExecTimeout(e) /\ FlowServerOnly

BridgeSpec == FlowServerStart /\ [][BridgeNext]_vars

\* the timeout executeToolFlow arms fires unless the response clears it
TimeoutOf(x) ==
    \E e \in executions : e.id = x /\ ExecTimeout(e) /\ FlowServerOnly
BridgeLiveSpec == BridgeSpec /\ \A x \in ExecIds : WF_vars(TimeoutOf(x))

\* ---- the client and its handshake.  The flow sends no 'request' and no
\* 'disconnect' command, so that every request is one of the handshake; it
\* connects while no connection object is left from an earlier attempt, and
\* no reconnect timeout elapses.  The frames the server sends are its
\* replies: objects with an id.
HandshakeOnly ==
    UNCHANGED <<supervisorVars, flowVars, registryVars, exampleVars,
                toolNodeVars, connectVars,
                listenVars>>
Quiet == UNCHANGED handshakeVars /\ HandshakeOnly
NoLiveConn == FreeConns = ConnIds
Replies == {text \in Texts : text.kind = "object" /\ text.hasId}

HandshakeNext ==
    \/ CmdConnect /\ NoLiveConn /\ Quiet
    \/ \E c \in ConnIds : HTTPProbeOk(c) /\ Quiet
    \/ \E c \in ConnIds : SSEOpen(c) /\ Armed /\ HandshakeOnly
    \/ \E c \in ConnIds : SSEError(c) /\ Quiet
    \/ \E c \in ConnIds : WSOpen(c) /\ Armed /\ HandshakeOnly
    \/ \E c \in ConnIds, text \in Replies : WSMessage(c, text) /\ Quiet
    \/ \E c \in ConnIds : WSError(c) /\ Quiet
    \/ \E c \in ConnIds, code \in CloseCodes : WSClose(c, code) /\ Quiet
    \/ \E o \in Sends : HandshakeFire(o) /\ HandshakeOnly
    \/ \E r \in ReqIds, tools \in ToolLists, o \in Sends :
           HandshakePostResolve(r, tools, o) /\ HandshakeOnly
    \/ \E r \in ReqIds : HandshakePostReject(r) /\ HandshakeOnly
    \/ \E r \in ReqIds : HandshakeRequestTimeout(r) /\ HandshakeOnly

HandshakeStart ==
    /\ Init /\ cfgReconnect /\ NoHandshake /\ NoConnectCalls
    /\ SupervisorAtRest /\ FlowServerCreated /\ NoRegistryNodes
    /\ NoExample /\ ToolNodeAtRest
HandshakeSpec == HandshakeStart /\ [][HandshakeNext]_vars

\* ---- the client's connect calls and their callbacks: the commands and
\* the events of the connection objects, without requests and messages
ConnectOnly ==
    UNCHANGED <<supervisorVars, flowVars, registryVars, handshakeVars,
                exampleVars, toolNodeVars,
                listenVars>>

ConnectNext ==
    \/ CmdConnect /\ Made /\ ConnectOnly
    \/ \E t \in TimerIds : ReconnectFire(t) /\ Made /\ ConnectOnly
    \/ \E c \in ConnIds : HTTPProbeOk(c) /\ Called(c) /\ ConnectOnly
    \/ \E c \in ConnIds : HTTPProbeFail(c) /\ Called(c) /\ ConnectOnly
    \/ \E c \in ConnIds : SSEOpen(c) /\ Called(c) /\ ConnectOnly
    \/ \E c \in ConnIds : SSEError(c) /\ NotCalled /\ ConnectOnly
    \/ \E c \in ConnIds : WSOpen(c) /\ Called(c) /\ ConnectOnly
    \/ \E c \in ConnIds : WSError(c) /\ NotCalled /\ ConnectOnly
    \/ \E c \in ConnIds, code \in CloseCodes :
           WSClose(c, code) /\ NotCalled /\ ConnectOnly
    \/ CmdDisconnect /\ NotCalled /\ ConnectOnly

ConnectStart ==
    /\ Init /\ NoHandshake /\ NoConnectCalls
    /\ SupervisorAtRest /\ FlowServerCreated /\ NoRegistryNodes
    /\ NoExample /\ ToolNodeAtRest
ConnectSpec == ConnectStart /\ [][ConnectNext]_vars

\* ---- the flow server's lifecycle
ListenOnly ==
    UNCHANGED <<clientVars, supervisorVars, flowVars, registryVars,
                handshakeVars, exampleVars, toolNodeVars, connectVars>>

ListenNext ==
    \/ FlowCmdStart /\ ListenOnly
    \/ FlowCmdStop /\ ListenOnly
    \/ FlowCmdRestart /\ ListenOnly
    \/ FlowStartFire /\ ListenOnly
    \/ Listening /\ ListenOnly
    \/ SSEClientConnects /\ ListenOnly
    \/ SSEClientLeaves /\ ListenOnly
    \/ ServerClosed /\ ListenOnly

ListenStart ==
    /\ ClientAtRest /\ SupervisorAtRest /\ FlowServerCreated /\ NoRegistryNodes
    /\ NoExample /\ ToolNodeAtRest
ListenSpec == ListenStart /\ [][ListenNext]_vars

\* ---- the example maker, on every schema
ExampleOnly ==
    UNCHANGED <<clientVars, supervisorVars, flowVars, registryVars,
                handshakeVars, toolNodeVars, connectVars,
                listenVars>>

ExampleNext == MakeExample /\ ExampleOnly

ExampleStart ==
    /\ ClientAtRest /\ SupervisorAtRest /\ FlowServerCreated /\ NoRegistryNodes
    /\ \E sch \in Schemas : ToolListed(sch)
    /\ ToolNodeAtRest
ExampleSpec == ExampleStart /\ [][ExampleNext]_vars

\* ---- the MCP Tool node, for every configuration of its defaults
ToolNodeOnly ==
    UNCHANGED <<clientVars, supervisorVars, flowVars, registryVars,
                handshakeVars, exampleVars, connectVars,
                listenVars>>

ToolNodeNext == \E msg \in ToolMsgs : ToolInput(msg) /\ ToolNodeOnly

ToolNodeInit == toolDefaults \in ParamsOf("default") /\ tev = [kind |-> "init"]
ToolNodeStart ==
    /\ ClientAtRest /\ SupervisorAtRest /\ FlowServerCreated /\ NoRegistryNodes
    /\ NoExample /\ ToolNodeInit
ToolNodeSpec == ToolNodeStart /\ [][ToolNodeNext]_vars

\* ---- the tool-registry node: one node and the registry it feeds
RegistryOnly ==
    UNCHANGED <<clientVars, supervisorVars, handshakeVars, exampleVars,
                toolNodeVars, connectVars,
                listenVars>>

RegistryNext ==
    \/ \E n \in DOMAIN registryNodes, msg \in RegistryCommands :
           RegistryInput(n, msg) /\ RegistryOnly
    \/ \E n \in DOMAIN registryNodes : RegistryTimerFire(n) /\ RegistryOnly
    \/ \E n \in DOMAIN registryNodes : RegistryClose(n) /\ RegistryOnly

OneRegistryNode ==
    /\ registryNodes \in [{1} -> RegistryNodeStates]
    /\ rev = [kind |-> "init"]

RegistryStart ==
    /\ ClientAtRest /\ SupervisorAtRest /\ FlowServerCreated /\ OneRegistryNode
    /\ NoExample /\ ToolNodeAtRest
RegistrySpec == RegistryStart /\ [][RegistryNext]_vars

\* ---- two tool-registry nodes on the one registry, with the 'register' and
\* 'unregister' commands, the registration timeouts and the close handler
TwoRegistryNodes ==
    /\ registryNodes \in [{1, 2} -> RegistryNodeStates]
    /\ rev = [kind |-> "init"]

RegisterCommands ==
    {m \in RegistryCommands : m.command \in {"register", "unregister"}}

RegistryPairNext ==
    \/ \E n \in DOMAIN registryNodes, msg \in RegisterCommands :
           RegistryInput(n, msg) /\ RegistryOnly
    \/ \E n \in DOMAIN registryNodes : RegistryTimerFire(n) /\ RegistryOnly
    \/ \E n \in DOMAIN registryNodes : RegistryClose(n) /\ RegistryOnly

RegistryPairStart ==
    /\ ClientAtRest /\ SupervisorAtRest /\ FlowServerCreated /\ TwoRegistryNodes
    /\ NoExample /\ ToolNodeAtRest
RegistryPairSpec == RegistryPairStart /\ [][RegistryPairNext]_vars

\* C17: at most one child process spawned by the supervisor is alive.
C17_OneChildAlive == Len(procs) <= 1

\* ------------------------------------------------ claims on the flow server
\* a tools/call, or a direct call, that names the tool n
CallsTool(request, n) ==
    \/ /\ request.method = Str(<<"tools/call">>)
       /\ request.params.present
       /\ request.params.name = n
    \/ /\ request.method = Str(n)
       /\ EndsWith(n, Suffix)

\* the names registered and not unregistered since
Registered == {n \in ToolNames : lastRegistered[n] # "none"} \ unregistered

\* C18: once a registered tool was unregistered, and until it is registered
\* again, tools/list leaves it out and a tools/call or a direct call for it
\* is answered with the error -32602 'Tool not found' and executes nothing.
C18_UnregisteredToolGone ==
    fev.kind = "post" =>
        \A n \in unregistered :
            /\ fev.request.method = Str(<<"tools/list">>) =>
                   \A i \in DOMAIN fev.response.tools :
                       fev.response.tools[i].name # n
            /\ CallsTool(fev.request, n) =>
                   /\ fev.replied
                   /\ fev.response = Error(200, fev.request.id, InvalidParams,
                                           <<"Tool not found: ">> \o n)
                   /\ fev.published = <<>>

C18_Witness ==
    /\ fev.kind = "post"
    /\ fev.request.method = Str(<<"tools/call">>)
    /\ fev.request.params.present
    /\ fev.request.params.name \in unregistered

\* C19: tools/list answers under the request's id with one entry for every
\* name registered and not unregistered since, carrying the definition last
\* registered under that name, and with nothing else (an empty list when no
\* tool is registered).
C19_ListIsRegistry ==
    (fev.kind = "post" /\ fev.request.method = Str(<<"tools/list">>)) =>
        LET tools == fev.response.tools
        IN /\ fev.replied
           /\ fev.response.status = 200
           /\ fev.response.id = fev.request.id
           /\ fev.response.code = 0
           /\ {tools[i].name : i \in DOMAIN tools} = Registered
           /\ \A i, j \in DOMAIN tools : tools[i].name = tools[j].name => i = j
           /\ \A i \in DOMAIN tools :
                  tools[i].description = lastRegistered[tools[i].name]

C19_Witness ==
    /\ fev.kind = "post"
    /\ fev.request.method = Str(<<"tools/list">>)
    /\ Len(fev.response.tools) = 2
    /\ \E i \in DOMAIN fev.response.tools :
           fev.response.tools[i].description = "v2"

\* C20: a POST /mcp whose method is none of initialize, tools/list and
\* tools/call and does not end in '_tool' is answered with the error -32601
\* 'Method not found: <method>' under the request's id, and publishes no
\* tool execution request.
Recognised(m) ==
    \/ m \in {Str(<<"initialize">>), Str(<<"tools/list">>),
              Str(<<"tools/call">>)}
    \/ m.type = "string" /\ EndsWith(m.text, Suffix)

C20_UnknownMethodRejected ==
    (fev.kind = "post" /\ ~Recognised(fev.request.method)) =>
        /\ fev.replied
        /\ fev.response =
               Error(200, fev.request.id, MethodNotFound,
                     <<"Method not found: ">> \o MethodText(fev.request.method))
        /\ fev.published = <<>>

\* the leaf a params value is
Leaf(v) ==
    CASE ~v.present -> "undefined"
      [] v.text -> "{text}"
      [] OTHER -> "{}"

\* {method: 'tools/call', params: {name: M, arguments: P}} of the direct
\* call {method: M, params: P}
AsToolsCall(request) ==
    [id |-> request.id, method |-> Str(<<"tools/call">>),
     params |-> Object(request.method.text, Leaf(request.params), FALSE)]

IsDirect(request) ==
    request.method.type = "string" /\ EndsWith(request.method.text, Suffix)

\* C21: for every method M ending in '_tool' and every params P, the request
\* {method: M, params: P} is answered, or published as an execution request,
\* exactly as {method: 'tools/call', params: {name: M, arguments: P}} is
\* against the same registry.
C21_DirectIsToolsCall ==
    (fev.kind = "post" /\ IsDirect(fev.request)) =>
        LET h == Dispatch(toolRegistry, AsToolsCall(fev.request))
        IN /\ fev.replied = (h.did # "executing")
           /\ fev.replied => fev.response = h.response
           /\ ~fev.replied =>
                  /\ fev.published[1].toolName = h.tool
                  /\ fev.published[1].arguments = h.args

\* the request's processing throws
Throws(reg, request) == Dispatch(reg, request).did = "threw"

\* C22: a POST /mcp whose processing throws (tools/call without params, for
\* one) is answered with the error -32603 under the request's id, and leaves
\* the registry and the executions in flight as they were, so that later
\* requests are answered as if it had not been made.
C22_ThrowAnswered ==
    [][(fev'.kind = "post" /\ Throws(toolRegistry, fev'.request)) =>
           /\ fev'.replied
           /\ fev'.response.code = InternalError
           /\ fev'.response.id = fev'.request.id
           /\ fev'.response.result = "none"
           /\ fev'.published = <<>>
           /\ UNCHANGED <<toolRegistry, executions>>]_vars

C22_Witness ==
    /\ fev.kind = "post"
    /\ fev.request.method = Str(<<"tools/call">>)
    /\ ~fev.request.params.present
    /\ fev.response.code = InternalError
    /\ toolRegistry # <<>>
    /\ executions # {}

\* ------------------------------------------ claims on the execution bridge
TimedOut(e) == Rejected(e, <<"Tool execution timeout">>)

\* C23: an executeToolFlow call settles exactly once.  A timeout is armed
\* only while its call is unsettled, so after the response it never acts; a
\* timeout that fires rejects its call with 'Tool execution timeout'; the
\* response of a call that is unsettled settles it with the result or the
\* error it carries, and the response of a call that timed out answers
\* nothing.
C23_SettlesOnce ==
    /\ \A e \in executions : e.timer => e.pending
    /\ fev.kind = "exec_timeout" =>
           \A e \in fev.saw :
               /\ e.pending
               /\ fev.replies =
                      {[execution |-> e.id, response |-> TimedOut(e)]}
    /\ fev.kind = "input" =>
           \A e \in fev.saw :
               /\ fev.replies =
                      IF e.pending
                      THEN {[execution |-> e.id,
                             response |-> ToolReply(e, fev.msg)]}
                      ELSE {}
               /\ \A x \in executions : x.id # e.id

\* a response arrives after its call timed out
C23_Witness ==
    /\ fev.kind = "input"
    /\ \E e \in fev.saw : ~e.pending
    /\ \E x \in executions : x.pending

\* C24: a response settles the execution whose executionId it carries and
\* no other: every reply the message causes is for that execution, under
\* the id of its request and with the outcome the message carries, and every
\* execution with another id stays as it was.
C24_OnlyItsOwn ==
    [][fev'.kind = "input" =>
           /\ \A r \in fev'.replies :
                  /\ fev'.msg.topic = "mcp-tool-response"
                  /\ r.execution = fev'.msg.executionId
                  /\ \E e \in executions :
                         /\ e.id = r.execution
                         /\ e.pending
                         /\ r.response = ToolReply(e, fev'.msg)
           /\ \A e \in executions :
                  (fev'.msg.topic # "mcp-tool-response"
                       \/ e.id # fev'.msg.executionId) =>
                      e \in executions']_vars

\* the second of two executions is answered while the first is in flight
C24_Witness ==
    /\ fev.kind = "input"
    /\ fev.replies # {}
    /\ fev.msg.executionId = 2
    /\ fev.msg.outcome = "r2"
    /\ \E e \in executions : e.id = 1 /\ e.pending

\* --------------------------------------- claims on the tool-registry node
\* C25: an 'update' command on a registered node replaces the node's entry
\* of the registry: when it changes the tool name, the entry under the old
\* name is gone once the command was handled, and once the re-registration
\* ran the registry holds the node's definition under the node's name.
C25_UpdateReplaces ==
    /\ (rev.kind = "input" /\ rev.msg.command = "update"
            /\ rev.was.isRegistered
            /\ rev.was.toolName # registryNodes[rev.node].toolName) =>
           ~Has(toolRegistry, rev.was.toolName)
    /\ (rev.kind = "timer" /\ ~rev.was.isRegistered) =>
           LET node == registryNodes[rev.node]
           IN /\ node.isRegistered
              /\ Has(toolRegistry, node.toolName)
              /\ Get(toolRegistry, node.toolName).description =
                     node.toolDescription

\* C26: the tool of a closed node is not in the registry, whatever timeout
\* was armed when the node was closed.
C26_ClosedStaysAbsent ==
    \A n \in DOMAIN registryNodes :
        registryNodes[n].closed =>
            ~Has(toolRegistry, registryNodes[n].toolName)

\* ------------------------------------------------- claims on the handshake
Streaming == connectionType \in {"sse", "websocket"}

\* the requests the handshake made in this step for the method m
NewlyAsked(m) ==
    {cb \in handshakeCallbacks' \ handshakeCallbacks : cb.method = m}

\* C27: a handshake is scheduled by the step in which an SSE or a WebSocket
\* connection opens, one for each such step, and by no other step (none for
\* HTTP); fetchMCPHandshake runs when a scheduled timeout fires, once for
\* each, and only then is an initialize request of the handshake made.
C27_HandshakeOnOpen ==
    [][/\ handshakeTimers' > handshakeTimers =>
              ev'.kind = "open" /\ Streaming /\ isConnected'
       /\ ev'.kind = "open" =>
              handshakeTimers' = IF Streaming
                                 THEN handshakeTimers + 1
                                 ELSE handshakeTimers
       /\ ev'.kind = "handshake" => handshakeTimers' = handshakeTimers - 1
       /\ NewlyAsked("initialize") # {} =>
              ev'.kind = "handshake" /\ Streaming]_vars

\* the handshake of a WebSocket session ran and its request went out
C27_Witness ==
    /\ ev.kind = "handshake"
    /\ ev.started
    /\ ev.sent
    /\ connectionType = "websocket"
    /\ handshakeTimers = 0

HasHandshake(type) ==
    \E i \in DOMAIN out :
        out[i].topic = "handshake" /\ out[i].type = type

\* C28: on a connected WebSocket session, the reply to the initialize
\* request of the handshake makes the client emit the 'handshake' message
\* of type 'initialization', and the reply to its tools/list request the one
\* of type 'tools_discovered'.
C28_WebSocketHandshakeReports ==
    (ev.kind = "inbound" /\ ev.transport = "websocket" /\ isConnected) =>
        \A cb \in handshakeCallbacks :
            cb.req \in ev.removed =>
                HasHandshake(IF cb.method = "initialize"
                             THEN "initialization"
                             ELSE "tools_discovered")

\* ------------------------------------------- claims on the example maker
\* C29: the example made of a schema has one value for each property, by the
\* property's type: a string with an enum takes the first enum value,
\* another string its description or the placeholder 'example_string',
\* number and integer give 123, boolean gives true, object gives {} and
\* array gives []; a schema without properties gives {}.
C29_ExampleByType ==
    example.made =>
        LET ps == schema.properties
            vs == example.params
        IN /\ DOMAIN vs = DOMAIN ps
           /\ (~schema.present \/ ~schema.hasProperties) => vs = <<>>
           /\ \A i \in DOMAIN ps :
                  CASE ps[i].type = "string" /\ ps[i].enum.present
                           /\ ps[i].enum.values # <<>> ->
                           vs[i] = String(Head(ps[i].enum.values))
                    [] ps[i].type = "string" /\ ~ps[i].enum.present ->
                           vs[i] = String(IF ps[i].description # ""
                                          THEN ps[i].description
                                          ELSE "example_string")
                    [] ps[i].type \in {"number", "integer"} ->
                           vs[i] = [kind |-> "number", text |-> "",
                                    num |-> 123]
                    [] ps[i].type = "boolean" -> vs[i] = True
                    [] ps[i].type = "object" -> vs[i] = EmptyObj
                    [] ps[i].type = "array" -> vs[i] = EmptyArr
                    [] OTHER -> TRUE

\* {a: string enum [x, y], b: integer} yields {a: 'x', b: 123}
C29_Witness ==
    /\ example.made
    /\ schema.hasProperties
    /\ Len(schema.properties) = 2
    /\ schema.properties[1].type = "string"
    /\ schema.properties[1].enum.values = <<"x", "y">>
    /\ schema.properties[2].type = "integer"
    /\ example.params = <<String("x"), Number(123)>>

\* ------------------------------------------- claims on the MCP Tool node
\* the sources of a message that define the key k, highest priority first
\* (a property of the message defines its key when it is not empty)
Sources(defaults, msg, k) ==
    LET p == msg.payload
    IN <<IF k = "project" /\ msg.project # "" THEN msg.project ELSE Absent,
         IF p.type = "object" /\ p.hasParams THEN p.params[k] ELSE Absent,
         IF p.type = "object" /\ ~p.method THEN p.own[k] ELSE Absent,
         defaults[k]>>

FirstDefined(values) ==
    IF \A i \in DOMAIN values : values[i] = Absent
    THEN Absent
    ELSE values[CHOOSE i \in DOMAIN values :
                    /\ values[i] # Absent
                    /\ \A j \in 1..(i - 1) : values[j] = Absent]

\* C30: for every parameter key, the value the MCP Tool node sends is the
\* one of the highest-priority source that defines the key: the message's
\* own property, then msg.payload.params, then msg.payload when it is an
\* object without a method, then the configured defaults.
C30_HighestPrioritySource ==
    tev.kind = "input" =>
        \A k \in Keys :
            tev.params[k] = FirstDefined(Sources(toolDefaults, tev.msg, k))

\* --------------------------------------- further claims on the supervisor
\* C31: restartCount moves in two ways only: a non-zero exit (`code !== 0`)
\* taken while restartCount < maxRestarts adds one, and a startup marker on
\* stdout sets it to 0; it stays within 0..maxRestarts, and a non-zero exit
\* taken with restartCount >= maxRestarts arms no delayed start.
C31_RestartCountMoves ==
    /\ 0 <= restartCount
    /\ restartCount <= maxRestarts
    /\ sev.kind # "init" =>
        /\ restartCount # sev.pre.restartCount =>
            \/ /\ sev.kind = "exit"
               /\ NonZero(sev.arg)
               /\ sev.pre.restartCount < maxRestarts
               /\ restartCount = sev.pre.restartCount + 1
            \/ /\ sev.kind = "stdout"
               /\ restartCount = 0
        /\ sev.kind = "stdout" => restartCount = 0
        /\ (sev.kind = "exit" /\ NonZero(sev.arg)
              /\ sev.pre.restartCount >= maxRestarts) =>
               /\ ~sev.armed
               /\ restartCount = sev.pre.restartCount

\* a startup marker resets a count that had reached maxRestarts
C31_Witness ==
    /\ sev.kind = "stdout"
    /\ sev.pre.restartCount = maxRestarts
    /\ restartCount = 0

\* C40: whenever the health-check interval is armed, a child process handle
\* exists and isRunning is true: an exit (restart branch and terminal branch)
\* and an explicit stop leave no interval armed, and a startup marker printed
\* after an explicit stop does not arm it again.
C40_HealthTimerHasProcess ==
    healthCheckTimer => (serverProcess # Null /\ isRunning)

\* ---------------------------------------- further claims on the handshake
\* the steps of fetchMCPHandshake and of the callbacks of its requests
HandshakeSteps == {"handshake", "handshake_reply", "handshake_failed"}

\* the requests of the handshake that wait for their answer
Unanswered == posts \cup pendingRequests \cup reqTimers

\* C32: the handshake asks for tools/list only in the callback of an
\* initialize request that succeeded, the one that reports 'initialization';
\* when initialize fails the callback emits no 'handshake' message and asks
\* for nothing; 'tools_discovered' is reported only for a tools/list request,
\* which an answered initialize request precedes.
C32_ToolsAfterInitialize ==
    [][/\ NewlyAsked("tools/list") # {} =>
              /\ ev'.kind = "handshake_reply"
              /\ ev'.method = "initialize"
              /\ out' = <<HandshakeMsg("initialization", <<>>)>>
       /\ (ev'.kind = "handshake_failed" /\ ev'.method = "initialize") =>
              /\ ~HasHandshake("initialization")'
              /\ ~HasHandshake("tools_discovered")'
              /\ NewlyAsked("tools/list") = {}
              /\ nextReq' = nextReq
       /\ HasHandshake("tools_discovered")' =>
              /\ ev'.kind = "handshake_reply"
              /\ ev'.method = "tools/list"
       /\ \A cb \in handshakeCallbacks' :
              cb.method = "tools/list" =>
                  \E i \in handshakeCallbacks' :
                      /\ i.method = "initialize"
                      /\ i.req < cb.req
                      /\ i.req \notin Unanswered']_vars

\* the tools of a server were reported
C32_Witness ==
    /\ ev.kind = "handshake_reply"
    /\ ev.method = "tools/list"
    /\ HasHandshake("tools_discovered")

\* the requests of the handshake
Asked == {cb.req : cb \in handshakeCallbacks}

\* C33: no step of the handshake (its start, a success or a failure of
\* initialize or of tools/list, a request timeout, the server's reply on the
\* WebSocket) changes isConnected, the connection object or the reconnect
\* timer; a handshake whose delay elapses when the session is not connected
\* makes no request.
C33_HandshakeLeavesSession ==
    [][/\ (\/ ev'.kind \in HandshakeSteps
           \/ ev'.kind = "inbound" /\ ev'.removed \cap Asked # {}) =>
              UNCHANGED <<isConnected, connection, conns, reconnectTimer,
                          timers>>
       /\ (ev'.kind = "handshake" /\ ~isConnected) =>
              /\ ~ev'.started
              /\ ~ev'.sent
              /\ UNCHANGED <<posts, pendingRequests, reqTimers, nextReq,
                             handshakeCallbacks>>]_vars

\* the delay of a handshake elapsed after the session was disconnected
C33_Witness ==
    /\ ev.kind = "handshake"
    /\ ~ev.started
    /\ ~isConnected

\* ------------------------------------ further claims on the flow server
\* the call with the execution id x waits for its reply
Waiting(x) == \E e \in executions : e.id = x /\ e.pending
\* the last step replied to the call with the execution id x
AnsweredNow(x) ==
    /\ fev.kind \in {"input", "exec_timeout"}
    /\ Cardinality({a \in fev.replies : a.execution = x}) = 1

\* what the route answers to the call e in a step that settles it
ReplyTo(e, step) ==
    CASE step.kind = "exec_timeout" ->
             Error(200, e.rpc, InternalError, <<"Tool execution timeout">>)
      [] step.msg.outcome = "error" ->
             Error(200, e.rpc, InternalError, <<"tool error">>)
      [] OTHER -> Ok(e.rpc, step.msg.outcome, <<>>)

\* C34: a POST /mcp tools/call for a registered tool is answered once under
\* its id: the call waits from the request on, a call that waits is
\* eventually answered, a reply is made only to a call that waits and ends
\* its wait, and the reply is the result the executor responded with, or the
\* error -32603 with the executor's failure message, or the error -32603
\* 'Tool execution timeout' when the timeout fired first.
C34_EveryCallAnswered ==
    /\ \A x \in ExecIds : Waiting(x) ~> (AnsweredNow(x) /\ ~Waiting(x))
    /\ [][/\ (/\ fev'.kind = "post"
              /\ fev'.request.method = Str(<<"tools/call">>)
              /\ fev'.request.params.present
              /\ Has(toolRegistry, fev'.request.params.name)) =>
                 /\ ~fev'.replied
                 /\ \E e \in executions' \ executions :
                        e.rpc = fev'.request.id /\ e.pending
          /\ fev'.kind \in {"input", "exec_timeout"} =>
                 \A a \in fev'.replies :
                     \E e \in executions :
                         /\ e.id = a.execution
                         /\ e.pending
                         /\ ~Waiting(e.id)'
                         /\ a.response = ReplyTo(e, fev')
          /\ \A x \in ExecIds :
                 (Waiting(x) /\ ~Waiting(x)') => AnsweredNow(x)']_vars

\* a tools/call was answered with the error of the timeout
C34_Witness ==
    /\ fev.kind = "exec_timeout"
    /\ \E a \in fev.replies :
           /\ a.response.code = InternalError
           /\ a.response.message = <<"Tool execution timeout">>
    /\ \E e \in executions : e.pending

\* C37: once an executeToolFlow call has resolved or rejected, by its
\* response or by its timeout, its response listener is off the node: the
\* listeners registered are as many as the calls that are unsettled.
C37_ListenersAreUnsettled ==
    Cardinality({e \in executions : e.listening})
        = Cardinality({e \in executions : e.pending})

\* --------------------------------------------- further claims on the client
\* C35: on a streaming session that is connected through the connection
\* object it holds, a step that leaves that connection open (so the event
\* of a connection that was superseded) neither marks the session
\* disconnected nor arms a reconnect timer.
C35_CurrentConnectionOnly ==
    [][(/\ Streaming
        /\ isConnected
        /\ connection # Null
        /\ conns[connection] = "open"
        /\ conns'[connection] = "open") =>
           /\ isConnected'
           /\ timers' \subseteq timers]_vars

\* C36: the callback of every connect call is invoked exactly once, with
\* success when the session connects and with an error when the attempt
\* fails: no callback is invoked twice, and the callback of an attempt whose
\* connection object (or probe) has ended was invoked.
C36_CallbackOnce ==
    \A c \in ConnIds :
        connectCallbacks[c].made =>
            /\ connectCallbacks[c].calls <= 1
            /\ conns[c] = "closed" => connectCallbacks[c].calls = 1

\* C38: a stopServer of the running flow server completes (isRunning false,
\* 'mcp-server-stopped' emitted, the callback invoked) also while /sse
\* clients are connected: whenever a stop is under way, the step that
\* completes it can be taken, and that step does all three.
C38_StopCompletes ==
    /\ (flowIsRunning /\ httpServer = "closing") =>
           ENABLED (ServerClosed /\ ListenOnly)
    /\ lev.kind = "closed" =>
           /\ ~flowIsRunning
           /\ Len(lev.sent) = Len(lev.calls)
           /\ \A i \in DOMAIN lev.sent : lev.sent[i] = "mcp-server-stopped"

\* ------------------------------- further claims on the tool-registry node
\* C39: a tool-registry node whose isRegistered is true has an entry of the
\* registry under its tool name, whatever the other registry nodes did,
\* those with the same tool name included.
C39_RegisteredHasEntry ==
    \A n \in DOMAIN registryNodes :
        registryNodes[n].isRegistered =>
            Has(toolRegistry, registryNodes[n].toolName)
====
